---- MODULE Spec2Model ----
(***************************************************************************)
(* Model of the manufacturing-co web front end: the Dashboard page         *)
(* (src/web/app/page.tsx), the AdminPage (same file, second half), the api *)
(* client (src/unnamed/part_000), the Header (src/README.md) and the       *)
(* ChatPanel (src/unnamed/part_002).                                       *)
(*                                                                         *)
(* React state is one variable per useState cell, named as in the source.  *)
(* A request in flight is an element of a set of pending requests; its     *)
(* completion is a separate action, so that user events interleave with    *)
(* responses exactly as the browser's event loop allows.                   *)
(***************************************************************************)
EXTENDS Integers, Sequences, FiniteSets, TLC

(* ---------------------------------------------------------------------- *)
(* Bounds of the model                                                     *)
(* ---------------------------------------------------------------------- *)
\* number of poll events explored while the histories are followed
MaxPolls == 4
\* longest response list delivered by the silver / gold records endpoints
MaxBatch == 2
\* number of requests issued by event handlers in one run
MaxRequests == 3
\* the largest lag, in seconds, the status badge is rendered with
MaxLag == 40
\* the longest list of discovered services that is rendered
MaxServices == 2

(* ---------------------------------------------------------------------- *)
(* Program constants                                                       *)
(* ---------------------------------------------------------------------- *)
BronzeHistoryMax == 30
SilverHistoryMax == 50
GoldHistoryMax == 50

(* ---------------------------------------------------------------------- *)
(* Helpers                                                                 *)
(* ---------------------------------------------------------------------- *)
\* an optional value (undefined / null in the source) is a sequence of
\* length 0 or 1
None == << >>
Some(x) == << x >>
IsSome(o) == o # << >>
Val(o) == o[1]

Last(s) == s[Len(s)]

\* Array.prototype.slice(-n)
SliceLast(s, n) == IF Len(s) <= n THEN s ELSE SubSeq(s, Len(s) - n + 1, Len(s))

\* Array.prototype.slice(0, n)
SliceFirst(s, n) == IF Len(s) <= n THEN s ELSE SubSeq(s, 1, n)

\* sequences over S of length at most n
SeqUpTo(S, n) == UNION { [1..k -> S] : k \in 0..n }

HasDuplicates(s) == \E i, j \in 1..Len(s) : i # j /\ s[i] = s[j]

VARIABLES
    mounted,                \* the page or component this browser tab has mounted
    \* ---- Dashboard (src/web/app/page.tsx:20-417) ----
    dashboardData,          \* useQuery ['dashboardData'] data
    detailedMetrics,        \* useQuery ['detailedTopicMetrics', ...] data
    silverRecordsResponse,  \* useQuery ['lastProcessedRecords'] data
    goldRecordsResponse,    \* useQuery ['lastGoldRecords'] data
    bronzeHistory,
    silverHistory,
    goldHistory,
    now,                    \* logical clock (new Date() in the bronze effect)
    actionLogs,
    isIngesting,
    bootstrapPending,       \* bootstrapMutation.isPending
    scenarioPending,        \* scenarioMutation.isPending
    ingestTimers,           \* setTimeout callbacks of scenarioMutation not yet run
    modalOpen,
    escapeListeners,        \* handleEscape listeners registered on window for 'keydown'
    selectedResourceType,
    resourceData,
    fetchingData,
    selectedResourceName,
    resourceRequests,       \* api.getResourceDetails calls in flight
    \* ---- AdminPage (src/web/app/page.tsx:626-1028) ----
    profile,
    loading,
    saving,
    testing,
    discovering,
    testResult,
    saveResult,
    services,
    readiness,
    profileFetch,           \* fetchProfile of the mount effect in flight
    testRequest,            \* body of the POST /profile/test in flight
    saveRequest,            \* handleSave in flight: its stage and the body it PUT
    discoverStage,          \* discoverServices in flight: the fetch it awaits
    lastTested,             \* the most recent connection test that returned: body and status
    \* ---- ChatPanel (src/unnamed/part_002) ----
    messages,
    input,
    isLoading,
    config,
    savedConfig,            \* localStorage item 'llm_config'
    configEffect,           \* the mount effect that reads it has not run yet
    chatRequests,           \* api.proxyLLMChat calls in flight
    \* ---- api client (src/unnamed/part_000:16-22) ----
    apiResponse,            \* the Response handed to handleResponse
    apiOutcome,             \* how the promise it returns settled
    \* ---- ProcessingStatus (src/frontend/app/components/ProcessingStatus.tsx) ----
    processingStatus,       \* the lagSeconds prop of the last render and the status shown
    \* ---- AdminPage, the list of discovered services (page.tsx:927-951) ----
    serviceRows,            \* the services of the last render of the list and their rows
    \* ---- Dashboard with batch ingestion and topic feed (src/unnamed/part_009) ----
    topicMetrics,           \* useQuery ['topicMetrics'] data
    messageHistory,
    messageTimes,           \* for each entry of messageHistory, the poll that added it
    ingestionMode,
    batchCsvGenerated,
    generateRequests,       \* POST /scenarios/generate_batch_csv in flight
    publishRequests,        \* POST /scenarios/publish_batch in flight
    csvFresh,               \* a CSV was generated since the last successful publish
    csvPublished,           \* successful publishes of the CSV now in the bucket
    \* ---- the network, as seen from the browser ----
    sentCount,              \* number of requests issued by event handlers so far
    lastSent                \* the most recent of them

histVars == << detailedMetrics, silverRecordsResponse, goldRecordsResponse,
               bronzeHistory, silverHistory, goldHistory >>
mutVars == << actionLogs, isIngesting, bootstrapPending, scenarioPending, ingestTimers >>
modalVars == << modalOpen, escapeListeners, selectedResourceType, resourceData, fetchingData,
                selectedResourceName, resourceRequests >>
netVars == << sentCount, lastSent >>

adminVars == << profile, loading, saving, testing, discovering, testResult, saveResult,
                services, readiness, profileFetch, testRequest, saveRequest,
                discoverStage, lastTested >>

chatVars == << messages, input, isLoading, config, savedConfig, configEffect, chatRequests >>

apiVars == << apiResponse, apiOutcome >>

\* the state of the components that are rendered inside a page
ingestVars == << topicMetrics, messageHistory, messageTimes, ingestionMode, batchCsvGenerated,
                 generateRequests, publishRequests, csvFresh, csvPublished >>

panelVars == << processingStatus, serviceRows, ingestVars >>

\* the state of the components other than the Dashboard
offDashVars == << adminVars, chatVars, apiVars, panelVars >>

\* everything outside the Dashboard's queries and histories
nonHistVars == << mounted, mutVars, modalVars, netVars, offDashVars >>

dashVars == << dashboardData, histVars, now, mutVars, modalVars >>

vars == << mounted, dashVars, netVars, offDashVars >>

(* ---------------------------------------------------------------------- *)
(* Input domains                                                           *)
(* ---------------------------------------------------------------------- *)
\* LayerReadiness.status; LayerStatusCard also knows 'degraded'
LayerStatus == {"ready", "missing", "degraded"}

\* DashboardData.readiness; LayerReadiness.details is the set of the keys that
\* are true
Readiness == [bronze : [status : LayerStatus,
                        details : { {}, {"topic"}, {"bucket"}, {"topic", "bucket"} }],
              silver : [status : LayerStatus, details : { {}, {"table", "bucket"} }],
              gold   : [status : LayerStatus, details : { {}, {"table", "bucket"} }]]

MkLayer(st, det) == [status |-> st, details |-> det]
MkReadiness(b, s, g) == [bronze |-> b, silver |-> s, gold |-> g]

DashboardDatas == [configured : BOOLEAN, readiness : {None} \cup {Some(r) : r \in Readiness}]

AllReady(bronzeDetails) ==
    MkReadiness(MkLayer("ready", bronzeDetails),
                MkLayer("ready", {"table", "bucket"}),
                MkLayer("ready", {"table", "bucket"}))

\* the dashboard responses used while exploring the history effects
HistDashboardDatas ==
    { [configured |-> FALSE, readiness |-> None],
      [configured |-> TRUE, readiness |-> Some(AllReady({"bucket"}))],
      [configured |-> TRUE, readiness |-> Some(AllReady({"topic", "bucket"}))] }

\* the dashboard responses used while exploring the event handlers
UiDashboardDatas ==
    { [configured |-> FALSE, readiness |-> Some(AllReady({"topic", "bucket"}))],
      [configured |-> TRUE, readiness |-> None],
      [configured |-> TRUE,
       readiness |-> Some(MkReadiness(MkLayer("ready", {"topic", "bucket"}),
                                      MkLayer("missing", {}),
                                      MkLayer("ready", {"table", "bucket"})))],
      [configured |-> TRUE, readiness |-> Some(AllReady({"topic", "bucket"}))] }

DetailedMetricsValues ==
    [total_messages : 0..1, processed : 0..1, invalidated_count : {0},
     lag_seconds : 0..1, queue_depth_percent : 0..1]

TelemetryRecords ==
    { [device_id |-> "CNC-001", timestamp |-> "t1"],
      [device_id |-> "CNC-001", timestamp |-> "t2"],
      [device_id |-> "CNC-002", timestamp |-> "t2"] }

\* one response lists each row of its table once
SilverResponses == [data : { q \in SeqUpTo(TelemetryRecords, MaxBatch) : ~HasDuplicates(q) }]
GoldResponses == [data : { q \in SeqUpTo([total_events : {100, 200}, anomaly_count : {0}], MaxBatch) : ~HasDuplicates(q) }]

(* ---------------------------------------------------------------------- *)
(* Dashboard: derived values (page.tsx:77-88)                              *)
(* ---------------------------------------------------------------------- *)
\* const readiness = dashboardData?.readiness || { ...missing... }
readinessOf(d) ==
    IF IsSome(d) /\ IsSome(Val(d).readiness)
    THEN Val(Val(d).readiness)
    ELSE MkReadiness(MkLayer("missing", {}), MkLayer("missing", {}), MkLayer("missing", {}))

\* const isConfigured = dashboardData?.configured || false
isConfiguredOf(d) == IsSome(d) /\ Val(d).configured

\* const isReady = (isConfigured && bronze ready && silver ready && gold ready) || false
isReadyOf(d) ==
    /\ isConfiguredOf(d)
    /\ readinessOf(d).bronze.status = "ready"
    /\ readinessOf(d).silver.status = "ready"
    /\ readinessOf(d).gold.status = "ready"

isReady == isReadyOf(dashboardData)

\* a plausible slip: enabled: isReady, the topic not asked for
detailedMetricsEnabledAnyTopic == isReady

\* enabled: isReady && !!readiness?.bronze?.details?.topic   (page.tsx:94)
detailedMetricsEnabled == isReady /\ "topic" \in readinessOf(dashboardData).bronze.details

\* const lastProcessedRecords = silverRecordsResponse?.data || []
lastProcessedRecords == IF IsSome(silverRecordsResponse) THEN Val(silverRecordsResponse).data ELSE << >>
\* const lastGoldRecords = goldRecordsResponse?.data || []
lastGoldRecords == IF IsSome(goldRecordsResponse) THEN Val(goldRecordsResponse).data ELSE << >>

(* ---------------------------------------------------------------------- *)
(* Dashboard: history updaters (page.tsx:98-165)                           *)
(* ---------------------------------------------------------------------- *)
newEntry(m, t) ==
    [time |-> t, ingestion |-> m.total_messages, processed |-> m.processed,
     invalidated_count |-> m.invalidated_count, lag |-> m.lag_seconds,
     queueDepth |-> m.queue_depth_percent]

\* a plausible slip: the lag comparison is left out of the equality test
BronzeUpdaterNoLag(prev, e) ==
    IF /\ Len(prev) > 0
       /\ Last(prev).ingestion = e.ingestion
       /\ Last(prev).processed = e.processed
    THEN prev
    ELSE SliceLast(Append(prev, e), BronzeHistoryMax)

\* setBronzeHistory(prev => ...)
BronzeUpdater(prev, e) ==
    IF /\ Len(prev) > 0
       /\ Last(prev).ingestion = e.ingestion
       /\ Last(prev).processed = e.processed
       /\ Last(prev).lag = e.lag
    THEN prev
    ELSE SliceLast(Append(prev, e), BronzeHistoryMax)

\* a plausible slip: slice(0, 50) keeps the oldest entries instead of the newest
SilverUpdaterKeepOldest(prev, records) ==
    IF Len(prev) > 0 /\ Last(prev).timestamp = records[1].timestamp
    THEN prev
    ELSE SliceFirst(prev \o records, SilverHistoryMax)

\* setSilverHistory(prev => ...), called only when records.length > 0
SilverUpdater(prev, records) ==
    IF Len(prev) > 0 /\ Last(prev).timestamp = records[1].timestamp
    THEN prev
    ELSE SliceLast(prev \o records, SilverHistoryMax)

\* setGoldHistory(prev => ...), called only when records.length > 0;
\* JSON.stringify of two KPI records agrees exactly when the records agree
GoldUpdater(prev, records) ==
    IF Len(prev) > 0 /\ Last(prev) = records[1]
    THEN prev
    ELSE SliceLast(prev \o records, GoldHistoryMax)

(* ---------------------------------------------------------------------- *)
(* Dashboard: polls.  useQuery keeps the reference of its data when a new  *)
(* response is deep-equal to the old one (structural sharing), so an       *)
(* effect with the data in its dependency list runs when the data changed. *)
(* ---------------------------------------------------------------------- *)
\* the clock is left to the specification: it ticks with every poll while the
\* histories are explored and is not observed otherwise
DashboardPoll(d) ==
    /\ mounted = "Dashboard"
    /\ dashboardData' = Some(d)
    /\ UNCHANGED << histVars, nonHistVars >>

Tick == now < MaxPolls /\ now' = now + 1

DetailedMetricsPoll(m) ==
    /\ mounted = "Dashboard"
    /\ detailedMetricsEnabled
    /\ Tick
    /\ detailedMetrics' = Some(m)
    /\ bronzeHistory' = IF detailedMetrics = Some(m)
                          THEN bronzeHistory
                          ELSE BronzeUpdater(bronzeHistory, newEntry(m, now'))
    /\ UNCHANGED << dashboardData, silverRecordsResponse, goldRecordsResponse,
                    silverHistory, goldHistory, nonHistVars >>

\* a plausible slip: the query keeps its first response instead of the latest
SilverPollStale(r) ==
    /\ mounted = "Dashboard"
    /\ isReady
    /\ Tick
    /\ silverRecordsResponse' = IF IsSome(silverRecordsResponse) THEN silverRecordsResponse ELSE Some(r)
    /\ silverHistory' = IF silverRecordsResponse = Some(r) \/ Len(r.data) = 0
                          THEN silverHistory
                          ELSE SilverUpdater(silverHistory, r.data)
    /\ UNCHANGED << dashboardData, detailedMetrics, goldRecordsResponse,
                    bronzeHistory, goldHistory, nonHistVars >>

SilverPoll(r) ==
    /\ mounted = "Dashboard"
    /\ isReady
    /\ Tick
    /\ silverRecordsResponse' = Some(r)
    /\ silverHistory' = IF silverRecordsResponse = Some(r) \/ Len(r.data) = 0
                          THEN silverHistory
                          ELSE SilverUpdater(silverHistory, r.data)
    /\ UNCHANGED << dashboardData, detailedMetrics, goldRecordsResponse,
                    bronzeHistory, goldHistory, nonHistVars >>

GoldPoll(r) ==
    /\ mounted = "Dashboard"
    /\ isReady
    /\ Tick
    /\ goldRecordsResponse' = Some(r)
    /\ goldHistory' = IF goldRecordsResponse = Some(r) \/ Len(r.data) = 0
                        THEN goldHistory
                        ELSE GoldUpdater(goldHistory, r.data)
    /\ UNCHANGED << dashboardData, detailedMetrics, silverRecordsResponse,
                    bronzeHistory, silverHistory, nonHistVars >>

\* a poll that ends in an error: useQuery keeps the data of the last success
PollFailed ==
    /\ mounted = "Dashboard"
    /\ Tick
    /\ UNCHANGED << dashboardData, histVars, nonHistVars >>

(* ---------------------------------------------------------------------- *)
(* The api client's requests (src/unnamed/part_000:24-62)                  *)
(* ---------------------------------------------------------------------- *)
Request(api, method, path, body) == [api |-> api, method |-> method, path |-> path, body |-> body]

\* api.bootstrap
bootstrapRequest == Request("bootstrap", "POST", << "profile", "bootstrap" >>, None)

\* api.runScenario
runScenarioRequest(scenarioType) ==
    Request("runScenario", "POST", << "profile", "scenarios", "run" >>,
            Some([profile_id |-> "default", scenario_type |-> scenarioType]))

\* a plausible slip: the branches of Topics and Tables exchanged
getResourceDetailsPathSwapped(type, name) ==
    IF type = "Buckets" THEN << "buckets", name, "objects" >>
    ELSE IF type = "Topics" THEN << "tables", name, "data" >>
    ELSE IF type = "Tables" THEN << "topics", name, "metrics" >>
    ELSE << >>

\* api.getResourceDetails: the url chosen from the type
getResourceDetailsPath(type, name) ==
    IF type = "Buckets" THEN << "buckets", name, "objects" >>
    ELSE IF type = "Topics" THEN << "topics", name, "metrics" >>
    ELSE IF type = "Tables" THEN << "tables", name, "data" >>
    ELSE << >>

getResourceDetailsRequest(type, name) ==
    Request("getResourceDetails", "GET", getResourceDetailsPath(type, name), None)

\* a handler started by the user issues its first request: it goes onto the
\* network
Send(req) ==
    /\ sentCount < MaxRequests
    /\ sentCount' = sentCount + 1
    /\ lastSent' = Some(req)

\* a running handler issues its next request, after the answer to the one
\* before it (at most one for each handler that was started)
SendNext(req) ==
    /\ sentCount' = sentCount + 1
    /\ lastSent' = Some(req)

(* ---------------------------------------------------------------------- *)
(* Dashboard: what is rendered (page.tsx:211-417)                          *)
(* ---------------------------------------------------------------------- *)
\* the three blocks of the page; while the first load is pending the data is
\* undefined and the page shows no button either
DashboardView(d) ==
    IF ~isConfiguredOf(d) THEN "configure"
    ELSE IF ~isReadyOf(d) THEN "bootstrap"
    ELSE "pipeline"

\* LayerStatusCard: the resources of the three layers
LayerResources ==
    { [layer |-> "bronze", type |-> "Topics", key |-> "topic", name |-> "manufacturing.telemetry.raw"],
      [layer |-> "bronze", type |-> "Buckets", key |-> "bucket", name |-> "bronze-bucket"],
      [layer |-> "silver", type |-> "Tables", key |-> "table", name |-> "telemetry.cleansed"],
      [layer |-> "silver", type |-> "Buckets", key |-> "bucket", name |-> "silver-bucket"],
      [layer |-> "gold", type |-> "Tables", key |-> "table", name |-> "manufacturing.kpis"],
      [layer |-> "gold", type |-> "Buckets", key |-> "bucket", name |-> "gold-bucket"] }

\* StatusItem: onClick={active ? onClick : undefined}, inside the pipeline
\* view, where PipelineFlowDiagram is rendered when dashboardData.readiness is
\* there; the open modal covers the page (fixed inset-0)
ResourceClickable(res) ==
    /\ DashboardView(dashboardData) = "pipeline"
    /\ IsSome(Val(dashboardData).readiness)
    /\ res.key \in readinessOf(dashboardData)[res.layer].details
    /\ ~modalOpen

\* <button disabled={bootstrapMutation.isPending}> in the bootstrap view
BootstrapButtonEnabled ==
    /\ DashboardView(dashboardData) = "bootstrap"
    /\ ~bootstrapPending

\* a plausible slip: the button is rendered in every configured view
IngestButtonEnabledAnyView ==
    /\ isConfiguredOf(dashboardData)
    /\ ~(isIngesting \/ scenarioPending)

\* a plausible slip: disabled={scenarioMutation.isPending}, isIngesting not asked for
IngestButtonEnabledPendingOnly ==
    /\ DashboardView(dashboardData) = "pipeline"
    /\ ~scenarioPending

\* <button disabled={isIngesting || scenarioMutation.isPending}> in the pipeline view
IngestButtonEnabled ==
    /\ DashboardView(dashboardData) = "pipeline"
    /\ ~(isIngesting \/ scenarioPending)

(* ---------------------------------------------------------------------- *)
(* Dashboard: bootstrapMutation (page.tsx:167-179)                         *)
(* ---------------------------------------------------------------------- *)
ClickBootstrap ==
    /\ mounted = "Dashboard"
    /\ BootstrapButtonEnabled
    /\ Send(bootstrapRequest)
    /\ actionLogs' = << "Starting bootstrap..." >>
    /\ bootstrapPending' = TRUE
    /\ UNCHANGED << mounted, offDashVars, dashboardData, histVars, now, isIngesting, scenarioPending,
                    ingestTimers, modalVars >>

\* onSuccess; an empty array is truthy, so data.logs || [...] keeps it
BootstrapSucceeded(data) ==
    /\ mounted = "Dashboard"
    /\ bootstrapPending
    /\ actionLogs' = IF IsSome(data.logs) THEN Val(data.logs) ELSE << "Bootstrap completed" >>
    /\ bootstrapPending' = FALSE
    /\ UNCHANGED << mounted, offDashVars, dashboardData, histVars, now, isIngesting, scenarioPending,
                    ingestTimers, modalVars, netVars >>

\* a plausible slip: the failed mutation is run again
BootstrapFailedRetry ==
    /\ mounted = "Dashboard"
    /\ bootstrapPending
    /\ Send(bootstrapRequest)
    /\ actionLogs' = Append(actionLogs, "Bootstrap failed")
    /\ bootstrapPending' = TRUE
    /\ UNCHANGED << mounted, offDashVars, dashboardData, histVars, now, isIngesting, scenarioPending,
                    ingestTimers, modalVars >>

\* onError (useMutation does not retry unless asked to); the log line is
\* written without its leading cross mark
BootstrapFailed ==
    /\ mounted = "Dashboard"
    /\ bootstrapPending
    /\ actionLogs' = Append(actionLogs, "Bootstrap failed")
    /\ bootstrapPending' = FALSE
    /\ UNCHANGED << mounted, offDashVars, dashboardData, histVars, now, isIngesting, scenarioPending,
                    ingestTimers, modalVars, netVars >>

(* ---------------------------------------------------------------------- *)
(* Dashboard: scenarioMutation (page.tsx:181-209)                          *)
(* ---------------------------------------------------------------------- *)
ScenarioResults == [logs : { << >>, << "Published 100 messages" >> }, message : { "Scenario completed" }]

\* the stages the backend runs for one scenario request: publishing the
\* messages into the bronze topic triggers processing and curation
RunStages(req) ==
    IF req.api = "runScenario" /\ Val(req.body).scenario_type = "iot_streaming"
    THEN { "ingestion", "processing", "curation" }
    ELSE { }

\* a plausible slip: the label of the mutation variables is passed on, not the type
ClickIngestByLabel ==
    /\ mounted = "Dashboard"
    /\ IngestButtonEnabled
    /\ Send(runScenarioRequest("Ingestion"))
    /\ isIngesting' = TRUE
    /\ scenarioPending' = TRUE
    /\ UNCHANGED << mounted, offDashVars, dashboardData, histVars, now, actionLogs, bootstrapPending,
                    ingestTimers, modalVars >>

\* onClick={() => scenarioMutation.mutate({ type: 'iot_streaming', label: 'Ingestion' })}
\* and the part of mutationFn before the await
ClickIngest ==
    /\ mounted = "Dashboard"
    /\ IngestButtonEnabled
    /\ Send(runScenarioRequest("iot_streaming"))
    /\ isIngesting' = TRUE
    /\ scenarioPending' = TRUE
    /\ UNCHANGED << mounted, offDashVars, dashboardData, histVars, now, actionLogs, bootstrapPending,
                    ingestTimers, modalVars >>

\* finally { setTimeout(...) }, then onSuccess
ScenarioSucceeded(data) ==
    /\ mounted = "Dashboard"
    /\ scenarioPending
    /\ ingestTimers' = ingestTimers + 1
    /\ actionLogs' = IF Len(data.logs) > 0 THEN data.logs ELSE << data.message >>
    /\ scenarioPending' = FALSE
    /\ UNCHANGED << mounted, offDashVars, dashboardData, histVars, now, isIngesting, bootstrapPending,
                    modalVars, netVars >>

\* a plausible slip: the reset is scheduled after the await instead of in
\* finally, so a failed request skips it
ScenarioFailedNoReset ==
    /\ mounted = "Dashboard"
    /\ scenarioPending
    /\ actionLogs' = Append(actionLogs, "Scenario execution error")
    /\ scenarioPending' = FALSE
    /\ UNCHANGED << mounted, offDashVars, dashboardData, histVars, now, isIngesting, bootstrapPending,
                    ingestTimers, modalVars, netVars >>

\* finally { setTimeout(...) }, then onError
ScenarioFailed ==
    /\ mounted = "Dashboard"
    /\ scenarioPending
    /\ ingestTimers' = ingestTimers + 1
    /\ actionLogs' = Append(actionLogs, "Scenario execution error")
    /\ scenarioPending' = FALSE
    /\ UNCHANGED << mounted, offDashVars, dashboardData, histVars, now, isIngesting, bootstrapPending,
                    modalVars, netVars >>

\* setTimeout(() => { setIsIngesting(false); }, 1000)
IngestTimerFires ==
    /\ mounted = "Dashboard"
    /\ ingestTimers > 0
    /\ ingestTimers' = ingestTimers - 1
    /\ isIngesting' = FALSE
    /\ UNCHANGED << mounted, offDashVars, dashboardData, histVars, now, actionLogs, bootstrapPending,
                    scenarioPending, modalVars, netVars >>

(* ---------------------------------------------------------------------- *)
(* Dashboard: resource modal (page.tsx:38-69, 309-316, 405-413)            *)
(* ---------------------------------------------------------------------- *)

\* useEffect(..., [modalOpen]) without its cleanup: listeners pile up
EscapeEffectNoCleanup(listeners, wasOpen, isOpen) ==
    IF wasOpen = isOpen
    THEN listeners
    ELSE listeners + (IF isOpen THEN 1 ELSE 0)

\* useEffect(..., [modalOpen]): when modalOpen has changed the cleanup of the
\* last run removes the listener that run added, then the effect adds one if
\* the modal is open; the number of listeners after it
EscapeEffect(listeners, wasOpen, isOpen) ==
    IF wasOpen = isOpen
    THEN listeners
    ELSE (listeners - (IF wasOpen THEN 1 ELSE 0)) + (IF isOpen THEN 1 ELSE 0)

\* onResourceClick and fetchResourceDetails up to the await
ClickResource(res) ==
    /\ mounted = "Dashboard"
    /\ ResourceClickable(res)
    /\ Send(getResourceDetailsRequest(res.type, res.name))
    /\ selectedResourceType' = Some(res.type)
    /\ modalOpen' = TRUE
    /\ escapeListeners' = EscapeEffect(escapeListeners, modalOpen, TRUE)
    /\ fetchingData' = TRUE
    /\ selectedResourceName' = Some(res.name)
    /\ resourceData' = None
    /\ resourceRequests' = resourceRequests \cup { [id |-> sentCount', type |-> res.type, name |-> res.name] }
    /\ UNCHANGED << mounted, offDashVars, dashboardData, histVars, now, mutVars >>

\* fetchResourceDetails after the await: try branch, then finally
ResourceDetailsResolved(q) ==
    /\ mounted = "Dashboard"
    /\ q \in resourceRequests
    /\ resourceRequests' = resourceRequests \ { q }
    /\ resourceData' = Some([type |-> q.type, name |-> q.name])
    /\ fetchingData' = FALSE
    /\ UNCHANGED << mounted, offDashVars, dashboardData, histVars, now, mutVars, netVars,
                    modalOpen, escapeListeners, selectedResourceType, selectedResourceName >>

\* fetchResourceDetails after the await: catch branch (console.error), then finally
ResourceDetailsRejected(q) ==
    /\ mounted = "Dashboard"
    /\ q \in resourceRequests
    /\ resourceRequests' = resourceRequests \ { q }
    /\ fetchingData' = FALSE
    /\ UNCHANGED << mounted, offDashVars, dashboardData, histVars, now, mutVars, netVars,
                    modalOpen, escapeListeners, selectedResourceType, resourceData,
                    selectedResourceName >>

\* onClose: the close buttons and the backdrop of ResourceDetailsModal
CloseModal ==
    /\ mounted = "Dashboard"
    /\ modalOpen
    /\ modalOpen' = FALSE
    /\ escapeListeners' = EscapeEffect(escapeListeners, modalOpen, FALSE)
    /\ resourceData' = None
    /\ selectedResourceName' = None
    /\ UNCHANGED << mounted, offDashVars, dashboardData, histVars, now, mutVars, netVars,
                    selectedResourceType, fetchingData, resourceRequests >>

\* a key is pressed: every registered handleEscape runs, and with 'Escape' it
\* calls setModalOpen(false); nothing listens otherwise
Keys == { "Escape", "Enter" }

PressKey(key) ==
    /\ mounted = "Dashboard"
    /\ IF escapeListeners > 0 /\ key = "Escape"
       THEN /\ modalOpen' = FALSE
            /\ escapeListeners' = EscapeEffect(escapeListeners, modalOpen, FALSE)
            /\ UNCHANGED << mounted, offDashVars, dashboardData, histVars, now, mutVars, netVars,
                            selectedResourceType, resourceData, fetchingData,
                            selectedResourceName, resourceRequests >>
       ELSE UNCHANGED vars


\* onBackToList: the button is rendered when data && onBackToList
BackToList ==
    /\ mounted = "Dashboard"
    /\ modalOpen
    /\ IsSome(resourceData)
    /\ resourceData' = None
    /\ selectedResourceName' = None
    /\ UNCHANGED << mounted, offDashVars, dashboardData, histVars, now, mutVars, netVars,
                    modalOpen, escapeListeners, selectedResourceType, fetchingData,
                    resourceRequests >>

DashInit ==
    /\ actionLogs = << >>
    /\ isIngesting = FALSE
    /\ bootstrapPending = FALSE
    /\ scenarioPending = FALSE
    /\ ingestTimers = 0
    /\ modalOpen = FALSE
    /\ escapeListeners = EscapeEffect(0, FALSE, FALSE)
    /\ selectedResourceType = None
    /\ resourceData = None
    /\ fetchingData = FALSE
    /\ selectedResourceName = None
    /\ resourceRequests = {}

NetInit ==
    /\ sentCount = 0
    /\ lastSent = None

(* ---------------------------------------------------------------------- *)
(* AdminPage: connection profile (page.tsx:626-878)                        *)
(* ---------------------------------------------------------------------- *)
\* ConnectionProfile: the three fields of the form; id and name are carried
\* along unchanged by every handler
Hosts == { "", "df-a.example.com", "df-b.example.com" }
Usernames == { "mapr", "admin" }
Passwords == { "pw1", "pw2" }

\* ConnectionTestResult bodies of a 2xx answer of POST /profile/test
TestResults ==
    { [status |-> "success", message |-> "Connected"],
      [status |-> "auth_failed", message |-> "Authentication failed"] }

\* what a failed fetch of POST /profile/test throws: errData.detail, the
\* 'HTTP error! status' fallback, or the error of fetch itself
TestErrors == { "Cluster unreachable", "HTTP error! status: 500", "Failed to fetch" }

\* ServiceDetail, as far as the service list reads it
ServiceLists == { << >>, << [tcp_available |-> TRUE, auth_status |-> "success"] >> }

profileRequest(method, body) == Request("profile", method, << "profile" >>, body)

\* the form is rendered once loading is over and a profile is there
FormRendered == ~loading /\ IsSome(profile)

\* useEffect(() => { fetchProfile(); }, []) : the answer, res.ok
ProfileLoaded(p) ==
    /\ mounted = "AdminPage"
    /\ profileFetch
    /\ profileFetch' = FALSE
    /\ profile' = Some(p)
    /\ loading' = FALSE
    /\ UNCHANGED << mounted, dashVars, chatVars, apiVars, panelVars, netVars, saving, testing, discovering, testResult,
                    saveResult, services, readiness, testRequest, saveRequest,
                    discoverStage, lastTested >>

\* fetchProfile: !res.ok, or the catch branch
ProfileLoadFailed ==
    /\ mounted = "AdminPage"
    /\ profileFetch
    /\ profileFetch' = FALSE
    /\ loading' = FALSE
    /\ UNCHANGED << mounted, dashVars, chatVars, apiVars, panelVars, netVars, profile, saving, testing, discovering,
                    testResult, saveResult, services, readiness, testRequest, saveRequest,
                    discoverStage, lastTested >>

\* onChange of the three inputs: setProfile({...profile, field}); setTestResult(null)
EditField(field, v) ==
    /\ mounted = "AdminPage"
    /\ FormRendered
    /\ Val(profile)[field] # v
    /\ profile' = Some([Val(profile) EXCEPT ![field] = v])
    /\ testResult' = None
    /\ UNCHANGED << mounted, dashVars, chatVars, apiVars, panelVars, netVars, loading, saving, testing, discovering,
                    saveResult, services, readiness, profileFetch, testRequest, saveRequest,
                    discoverStage, lastTested >>

\* <button onClick={handleSave}
\*   disabled={saving || !profile.cluster_host || testResult?.status !== 'success'}>
SaveButtonEnabled ==
    /\ FormRendered
    /\ ~saving
    /\ Val(profile).cluster_host # ""
    /\ IsSome(testResult)
    /\ Val(testResult).status = "success"

\* testConnection up to the await
ClickTest ==
    /\ mounted = "AdminPage"
    \* <button onClick={testConnection} disabled={testing || !profile.cluster_host}>
    /\ FormRendered /\ ~testing /\ Val(profile).cluster_host # ""
    /\ Send(Request("testConnection", "POST", << "profile", "test" >>, profile))
    /\ testing' = TRUE
    /\ testResult' = None
    /\ testRequest' = Some(Val(profile))
    /\ UNCHANGED << mounted, dashVars, chatVars, apiVars, panelVars, profile, loading, saving, discovering, saveResult,
                    services, readiness, profileFetch, saveRequest, discoverStage, lastTested >>

\* testConnection after the await: res.ok, setTestResult(data), finally
TestAnswered(data) ==
    /\ mounted = "AdminPage"
    /\ IsSome(testRequest)
    /\ testRequest' = None
    /\ testResult' = Some(data)
    /\ testing' = FALSE
    /\ lastTested' = Some([body |-> Val(testRequest), status |-> data.status])
    /\ UNCHANGED << mounted, dashVars, chatVars, apiVars, panelVars, netVars, profile, loading, saving, discovering,
                    saveResult, services, readiness, profileFetch, saveRequest, discoverStage >>

\* testConnection after the await: !res.ok or a rejected fetch, catch, finally
TestFailed(err) ==
    /\ mounted = "AdminPage"
    /\ IsSome(testRequest)
    /\ testRequest' = None
    /\ testResult' = Some([status |-> "error", message |-> "Connection test failed: " \o err])
    /\ testing' = FALSE
    /\ lastTested' = Some([body |-> Val(testRequest), status |-> "error"])
    /\ UNCHANGED << mounted, dashVars, chatVars, apiVars, panelVars, netVars, profile, loading, saving, discovering,
                    saveResult, services, readiness, profileFetch, saveRequest, discoverStage >>

\* handleSave up to the first await
ClickSave ==
    /\ mounted = "AdminPage"
    /\ SaveButtonEnabled
    /\ Send(profileRequest("PUT", Some(Val(profile))))
    /\ saving' = TRUE
    /\ saveRequest' = Some([stage |-> "put", body |-> Val(profile)])
    /\ UNCHANGED << mounted, dashVars, chatVars, apiVars, panelVars, profile, loading, testing, discovering, testResult,
                    saveResult, services, readiness, profileFetch, testRequest,
                    discoverStage, lastTested >>

\* handleSave: the PUT answered with res.ok; fetchProfile() is awaited next
SavePutOk ==
    /\ mounted = "AdminPage"
    /\ IsSome(saveRequest)
    /\ Val(saveRequest).stage = "put"
    /\ saveRequest' = Some([Val(saveRequest) EXCEPT !.stage = "get"])
    /\ SendNext(profileRequest("GET", None))
    /\ UNCHANGED << mounted, dashVars, chatVars, apiVars, panelVars, profile, loading, saving, testing,
                    discovering, testResult, saveResult, services, readiness, profileFetch,
                    testRequest, discoverStage, lastTested >>

\* handleSave: !res.ok or a rejected fetch of the PUT, catch, finally
SavePutFailed ==
    /\ mounted = "AdminPage"
    /\ IsSome(saveRequest)
    /\ Val(saveRequest).stage = "put"
    /\ saveRequest' = None
    /\ saveResult' = Some([status |-> "error",
                           message |-> "Error saving profile Error: Failed to save profile"])
    /\ saving' = FALSE
    /\ UNCHANGED << mounted, dashVars, chatVars, apiVars, panelVars, netVars, profile, loading, testing, discovering,
                    testResult, services, readiness, profileFetch, testRequest,
                    discoverStage, lastTested >>

\* handleSave: fetchProfile() settled (it never throws); with res.ok the
\* profile is replaced by the one the server stores, which is the body of the PUT
SaveRefetched(ok) ==
    /\ mounted = "AdminPage"
    /\ IsSome(saveRequest)
    /\ Val(saveRequest).stage = "get"
    /\ saveRequest' = None
    /\ profile' = IF ok THEN Some(Val(saveRequest).body) ELSE profile
    /\ loading' = FALSE
    /\ saveResult' = Some([status |-> "success", message |-> "Profile saved successfully"])
    /\ saving' = FALSE
    /\ UNCHANGED << mounted, dashVars, chatVars, apiVars, panelVars, netVars, testing, discovering, testResult, services,
                    readiness, profileFetch, testRequest, discoverStage, lastTested >>

(* ---------------------------------------------------------------------- *)
(* AdminPage: service discovery (page.tsx:762-781, 880-954)                *)
(* ---------------------------------------------------------------------- *)
\* discoverServices up to the first await
ClickDiscover ==
    /\ mounted = "AdminPage"
    \* the section is rendered when profile.cluster_host; disabled={discovering}
    /\ FormRendered /\ Val(profile).cluster_host # "" /\ ~discovering
    /\ Send(Request("discoverServices", "GET", << "profile", "services" >>, None))
    /\ discovering' = TRUE
    /\ discoverStage' = "services"
    /\ UNCHANGED << mounted, dashVars, chatVars, apiVars, panelVars, profile, loading, saving, testing, testResult,
                    saveResult, services, readiness, profileFetch, testRequest, saveRequest,
                    lastTested >>

\* GET /profile/services answered: with res.ok the list is stored, otherwise
\* nothing is; GET /profile/readiness is awaited next
ServicesAnswered(ok, list) ==
    /\ mounted = "AdminPage"
    /\ discoverStage = "services"
    /\ services' = IF ok THEN list ELSE services
    /\ discoverStage' = "readiness"
    /\ SendNext(Request("discoverServices", "GET", << "profile", "readiness" >>, None))
    /\ UNCHANGED << mounted, dashVars, chatVars, apiVars, panelVars, profile, loading, saving, testing,
                    discovering, testResult, saveResult, readiness, profileFetch,
                    testRequest, saveRequest, lastTested >>

\* GET /profile/readiness answered, then finally
ReadinessAnswered(ok, score) ==
    /\ mounted = "AdminPage"
    /\ discoverStage = "readiness"
    /\ readiness' = IF ok THEN Some(score) ELSE readiness
    /\ discoverStage' = "idle"
    /\ discovering' = FALSE
    /\ UNCHANGED << mounted, dashVars, chatVars, apiVars, panelVars, netVars, profile, loading, saving, testing,
                    testResult, saveResult, services, profileFetch, testRequest,
                    saveRequest, lastTested >>

\* either fetch rejected: catch (console.error), then finally
DiscoverFailed ==
    /\ mounted = "AdminPage"
    /\ discoverStage # "idle"
    /\ discoverStage' = "idle"
    /\ discovering' = FALSE
    /\ UNCHANGED << mounted, dashVars, chatVars, apiVars, panelVars, netVars, profile, loading, saving, testing,
                    testResult, saveResult, services, readiness, profileFetch, testRequest,
                    saveRequest, lastTested >>

AdminInit ==
    /\ profile = None
    /\ loading = TRUE
    /\ saving = FALSE
    /\ testing = FALSE
    /\ discovering = FALSE
    /\ testResult = None
    /\ saveResult = None
    /\ services = << >>
    /\ readiness = None
    /\ profileFetch = (mounted = "AdminPage")
    /\ testRequest = None
    /\ saveRequest = None
    /\ discoverStage = "idle"
    /\ lastTested = None

AdminNext ==
    \/ \E p \in [cluster_host : Hosts, username : Usernames, password : Passwords] : ProfileLoaded(p)
    \/ ProfileLoadFailed
    \/ \E v \in Hosts : EditField("cluster_host", v)
    \/ \E v \in Usernames : EditField("username", v)
    \/ \E v \in Passwords : EditField("password", v)
    \/ ClickTest
    \/ \E data \in TestResults : TestAnswered(data)
    \/ \E err \in TestErrors : TestFailed(err)
    \/ ClickSave
    \/ SavePutOk
    \/ SavePutFailed
    \/ \E ok \in BOOLEAN : SaveRefetched(ok)
    \/ ClickDiscover
    \/ \E ok \in BOOLEAN, list \in ServiceLists : ServicesAnswered(ok, list)
    \/ \E ok \in BOOLEAN, score \in { [score |-> 100] } : ReadinessAnswered(ok, score)
    \/ DiscoverFailed

(* ---------------------------------------------------------------------- *)
(* ChatPanel (src/unnamed/part_002:22-141, 235-247)                        *)
(* ---------------------------------------------------------------------- *)
\* text is a sequence of characters, so that trim() has something to do
RECURSIVE TrimStart(_)
TrimStart(t) == IF Len(t) > 0 /\ t[1] = " " THEN TrimStart(Tail(t)) ELSE t

RECURSIVE TrimEnd(_)
TrimEnd(t) ==
    IF Len(t) > 0 /\ t[Len(t)] = " " THEN TrimEnd(SubSeq(t, 1, Len(t) - 1)) ELSE t

\* String.prototype.trim
Trim(t) == TrimEnd(TrimStart(t))


DEFAULT_CONFIG == [baseUrl |-> "https://api.openai.com/v1", apiToken |-> "", model |-> "gpt-4o"]

\* configurations the settings modal can save
Configs ==
    { [baseUrl |-> "https://api.openai.com/v1", apiToken |-> "sk-1", model |-> "gpt-4o"],
      [baseUrl |-> "http://llm.internal:8000/v1", apiToken |-> "local", model |-> "llama-3"] }

\* the props the parent hands to the panel once its queries have data
ChatProps ==
    [dashboardData |-> Some([configured |-> TRUE, readiness |-> Some(AllReady({"topic", "bucket"}))]),
     detailedMetrics |-> Some([total_messages |-> 1, processed |-> 1, invalidated_count |-> 0,
                               lag_seconds |-> 0, queue_depth_percent |-> 0]),
     lastProcessedRecords |-> Some([data |-> << [device_id |-> "CNC-001", timestamp |-> "t1"] >>]),
     lastGoldRecords |-> Some([data |-> << [total_events |-> 100, anomaly_count |-> 0] >>])]

\* ChatPanel({ dashboardData, detailedMetrics, lastProcessedRecords,
\* lastGoldRecords }): the panel is rendered again with new props
ChatPropsChanged ==
    /\ mounted = "ChatPanel"
    /\ dashboardData # ChatProps.dashboardData
    /\ dashboardData' = ChatProps.dashboardData
    /\ detailedMetrics' = ChatProps.detailedMetrics
    /\ silverRecordsResponse' = ChatProps.lastProcessedRecords
    /\ goldRecordsResponse' = ChatProps.lastGoldRecords
    /\ UNCHANGED << mounted, bronzeHistory, silverHistory, goldHistory, now, mutVars, modalVars,
                    netVars, offDashVars >>

\* const context = {...}: built from the props of the panel
ChatContext ==
    [dashboard |-> [readiness |-> IF IsSome(dashboardData) THEN Val(dashboardData).readiness ELSE None],
     bronze_layer |-> IF IsSome(detailedMetrics)
                       THEN Some([total_messages |-> Val(detailedMetrics).total_messages,
                                  lag_seconds |-> Val(detailedMetrics).lag_seconds])
                       ELSE None,
     silver_layer |-> [last_5_records |-> SliceFirst(lastProcessedRecords, 5)],
     gold_layer |-> [last_5_records |-> SliceFirst(lastGoldRecords, 5)]]

systemPrompt ==
    << "You are a data engineering assistant for a manufacturing company.",
       ToString(ChatContext) >>

\* requestBody built from the message list after setMessages took effect
requestBodyAfterSetMessages(currentInput) ==
    [model |-> config.model,
     messages |-> << [role |-> "system", content |-> systemPrompt] >>
                  \o [i \in 1..Len(messages) |-> [role |-> messages[i].role, content |-> messages[i].content]]
                  \o << [role |-> "user", content |-> currentInput] >>
                  \o << [role |-> "user", content |-> currentInput] >>]

\* const requestBody = { model, messages: [system, ...messages, user] }
requestBody(currentInput) ==
    [model |-> config.model,
     messages |-> << [role |-> "system", content |-> systemPrompt] >>
                  \o [i \in 1..Len(messages) |-> [role |-> messages[i].role, content |-> messages[i].content]]
                  \o << [role |-> "user", content |-> currentInput] >>]

\* api.proxyLLMChat(baseUrl, apiToken, payload)
proxyLLMChatRequest(baseUrl, apiToken, payload) ==
    Request("proxyLLMChat", "POST", << "llm", "chat" >>,
            Some([base_url |-> baseUrl, api_token |-> apiToken, payload |-> payload]))

\* the backend's /llm/chat handler forwards the payload to the endpoint named
\* by base_url
ProxyDestination(req) == Val(req.body).base_url


\* the mount effect: localStorage.getItem('llm_config'), setConfig(JSON.parse(saved))
LoadSavedConfig ==
    /\ mounted = "ChatPanel"
    /\ configEffect
    /\ configEffect' = FALSE
    /\ config' = IF IsSome(savedConfig) THEN Val(savedConfig) ELSE config
    /\ UNCHANGED << mounted, dashVars, adminVars, apiVars, panelVars, netVars, messages, input, isLoading,
                    savedConfig, chatRequests >>

\* saveConfig, the onSave of LLMSettingsModal
SaveConfig(c) ==
    /\ mounted = "ChatPanel"
    /\ ~configEffect
    /\ c # config
    /\ config' = c
    /\ savedConfig' = Some(c)
    /\ UNCHANGED << mounted, dashVars, adminVars, apiVars, panelVars, netVars, messages, input, isLoading,
                    configEffect, chatRequests >>

\* <input disabled={!config.apiToken || isLoading}>
InputEnabled == ~configEffect /\ config.apiToken # "" /\ ~isLoading

\* onChange={(e) => setInput(e.target.value)}
TypeInput(t) ==
    /\ mounted = "ChatPanel"
    /\ InputEnabled
    /\ t # input
    /\ input' = t
    /\ UNCHANGED << mounted, dashVars, adminVars, apiVars, panelVars, netVars, messages, isLoading, config,
                    savedConfig, configEffect, chatRequests >>

\* clearChat
ClearChat ==
    /\ mounted = "ChatPanel"
    /\ messages # << >>
    /\ messages' = << >>
    /\ UNCHANGED << mounted, dashVars, adminVars, apiVars, panelVars, netVars, input, isLoading, config,
                    savedConfig, configEffect, chatRequests >>

\* handleSend up to the await
handleSend ==
    IF Trim(input) = << >> \/ isLoading
    THEN UNCHANGED << messages, input, isLoading, chatRequests, netVars >>
    ELSE /\ Send(proxyLLMChatRequest(config.baseUrl, config.apiToken, requestBody(input)))
         /\ messages' = Append(messages, [role |-> "user", content |-> input])
         /\ input' = << >>
         /\ isLoading' = TRUE
         /\ chatRequests' = chatRequests \cup { [id |-> sentCount'] }

\* onKeyDown={(e) => e.key === 'Enter' && handleSend()}
PressEnter ==
    /\ mounted = "ChatPanel"
    /\ InputEnabled
    /\ handleSend
    /\ UNCHANGED << mounted, dashVars, adminVars, apiVars, panelVars, config, savedConfig, configEffect >>

\* onClick={handleSend}
ClickSend ==
    /\ mounted = "ChatPanel"
    \* <button disabled={!config.apiToken || !input.trim() || isLoading}>
    /\ InputEnabled /\ Trim(input) # << >>
    /\ handleSend
    /\ UNCHANGED << mounted, dashVars, adminVars, apiVars, panelVars, config, savedConfig, configEffect >>

ChatErrors == { "API request failed with status 500", "Failed to fetch" }

\* handleSend after the await: try branch, then finally
ChatAnswered(q, reply) ==
    /\ mounted = "ChatPanel"
    /\ q \in chatRequests
    /\ chatRequests' = chatRequests \ { q }
    /\ messages' = Append(messages, [role |-> "assistant", content |-> reply])
    /\ isLoading' = FALSE
    /\ UNCHANGED << mounted, dashVars, adminVars, apiVars, panelVars, netVars, input, config, savedConfig,
                    configEffect >>

\* a plausible slip: setIsLoading(false) at the end of try instead of in finally
ChatFailedNoFinally(q, errorMessage) ==
    /\ mounted = "ChatPanel"
    /\ q \in chatRequests
    /\ chatRequests' = chatRequests \ { q }
    /\ messages' = Append(messages,
                          [role |-> "assistant",
                           content |-> << "Error: " \o errorMessage
                                          \o ". Please check your configuration and API token." >>])
    /\ UNCHANGED << mounted, dashVars, adminVars, apiVars, panelVars, netVars, input, isLoading, config,
                    savedConfig, configEffect >>

\* handleSend after the await: catch branch, then finally
ChatFailed(q, errorMessage) ==
    /\ mounted = "ChatPanel"
    /\ q \in chatRequests
    /\ chatRequests' = chatRequests \ { q }
    /\ messages' = Append(messages,
                          [role |-> "assistant",
                           content |-> << "Error: " \o errorMessage
                                          \o ". Please check your configuration and API token." >>])
    /\ isLoading' = FALSE
    /\ UNCHANGED << mounted, dashVars, adminVars, apiVars, panelVars, netVars, input, config, savedConfig,
                    configEffect >>

ChatInit ==
    /\ messages = << >>
    /\ input = << >>
    /\ isLoading = FALSE
    /\ config = DEFAULT_CONFIG
    /\ savedConfig \in IF mounted = "ChatPanel" THEN { None } \cup { Some(c) : c \in Configs } ELSE { None }
    /\ configEffect = (mounted = "ChatPanel")
    /\ chatRequests = {}

ChatNext ==
    \/ ChatPropsChanged
    \/ LoadSavedConfig
    \/ \E c \in Configs : SaveConfig(c)
    \/ \E t \in { << >>, << " " >>, << "h", "i" >>, << " ", "o", "k" >> } : TypeInput(t)
    \/ ClearChat
    \/ PressEnter
    \/ ClickSend
    \/ \E q \in chatRequests, reply \in { << "The pipeline is healthy." >> } : ChatAnswered(q, reply)
    \/ \E q \in chatRequests, err \in ChatErrors : ChatFailed(q, err)

(* ---------------------------------------------------------------------- *)
(* api client: handleResponse (src/unnamed/part_000:16-22)                 *)
(* ---------------------------------------------------------------------- *)
\* the body of a Response: text that is not JSON, or the JSON values null,
\* a string, an object without or with a message field
Bodies ==
    { [kind |-> "invalid", message |-> None],
      [kind |-> "null", message |-> None],
      [kind |-> "string", message |-> None],
      [kind |-> "object", message |-> None],
      [kind |-> "object", message |-> Some("")],
      [kind |-> "object", message |-> Some("Profile not configured")] }

Responses == [status : { 200, 201, 400, 404, 500 }, statusText : { "", "Bad Gateway" }, body : Bodies]

\* Response.ok
ok(res) == res.status \in 200..299

Rejected(name, msg) == [state |-> "rejected", value |-> None,
                        error |-> Some([name |-> name, message |-> msg])]

\* error.message: undefined on a string and on an object without the field
messageOf(v) == IF v.kind = "object" THEN v.message ELSE None


\* async function handleResponse<T>(res: Response): Promise<T>
handleResponse(res) ==
    IF ~ok(res)
    THEN \* const error = await res.json().catch(() => ({ message: res.statusText }))
         LET error == IF res.body.kind = "invalid"
                      THEN [kind |-> "object", message |-> Some(res.statusText)]
                      ELSE res.body
         IN  \* throw new Error(error.message || `API request failed with status ...`)
             IF error.kind = "null"
             THEN Rejected("TypeError", "Cannot read properties of null (reading 'message')")
             ELSE Rejected("Error",
                           IF IsSome(messageOf(error)) /\ Val(messageOf(error)) # ""
                           THEN Val(messageOf(error))
                           ELSE "API request failed with status " \o ToString(res.status))
    ELSE \* return res.json()
         IF res.body.kind = "invalid"
         THEN Rejected("SyntaxError", "Unexpected token")
         ELSE [state |-> "fulfilled", value |-> Some(res.body), error |-> None]

\* fetch(...) resolved with res; .then(handleResponse) has not run yet
ApiReceive(res) ==
    /\ apiResponse' = Some(res)
    /\ apiOutcome' = None
    /\ UNCHANGED << mounted, dashVars, adminVars, chatVars, netVars, panelVars >>

\* .then(handleResponse): the promise of the api call settles
ApiSettle ==
    /\ IsSome(apiResponse)
    /\ apiOutcome = None
    /\ apiOutcome' = Some(handleResponse(Val(apiResponse)))
    /\ UNCHANGED << mounted, dashVars, adminVars, chatVars, netVars, panelVars, apiResponse >>

ApiInit ==
    /\ apiResponse = None
    /\ apiOutcome = None

ApiNext ==
    \/ \E res \in Responses : ApiReceive(res)
    \/ ApiSettle

(* ---------------------------------------------------------------------- *)
(* ProcessingStatus (src/frontend/app/components/ProcessingStatus.tsx)     *)
(* ---------------------------------------------------------------------- *)
\* a JavaScript number: NaN (nan is TRUE), or a finite value counted in tenths
Num(tenths) == [nan |-> FALSE, tenths |-> tenths]

\* a < b for a number a and an integer literal b: false when a is NaN
Lt(a, b) == ~a.nan /\ a.tenths < 10 * b


\* a plausible slip: the first threshold taken inclusive
getLagStatusInclusive(lag) ==
    IF Lt(lag, 5) \/ lag = Num(50) THEN [icon |-> "ok", color |-> "green", label |-> "Real-time"]
    ELSE IF Lt(lag, 30) THEN [icon |-> "warning", color |-> "amber", label |-> "Minor delay"]
    ELSE [icon |-> "red", color |-> "red", label |-> "Significant lag"]

getLagStatus(lag) ==
    IF Lt(lag, 5) THEN [icon |-> "ok", color |-> "green", label |-> "Real-time"]
    ELSE IF Lt(lag, 30) THEN [icon |-> "warning", color |-> "amber", label |-> "Minor delay"]
    ELSE [icon |-> "red", color |-> "red", label |-> "Significant lag"]

\* the component is rendered with a lagSeconds prop: const status = getLagStatus(lagSeconds)
RenderProcessingStatus(lagSeconds) ==
    /\ processingStatus' = Some([lagSeconds |-> lagSeconds, status |-> getLagStatus(lagSeconds)])
    /\ UNCHANGED << mounted, dashVars, netVars, adminVars, chatVars, apiVars, serviceRows, ingestVars >>

(* ---------------------------------------------------------------------- *)
(* AdminPage: the rows of the discovered services (page.tsx:927-951)       *)
(* ---------------------------------------------------------------------- *)
\* a plausible slip: the port is looked at before the authentication
ServiceRowTcpFirst(service) ==
    [dot |-> IF service.tcp_available THEN "bg-amber-500"
             ELSE IF service.auth_status = "success" THEN "bg-emerald-500" ELSE "bg-destructive",
     badge |-> IF service.tcp_available THEN "bg-amber-500/10 text-amber-600"
               ELSE IF service.auth_status = "success" THEN "bg-emerald-500/10 text-emerald-600"
               ELSE "bg-destructive/10 text-destructive",
     label |-> IF service.tcp_available THEN "Reachable"
               ELSE IF service.auth_status = "success" THEN "Available" ELSE "Unavailable"]

\* the three ternaries of a row: the dot's class, the badge's class, its text
ServiceRow(service) ==
    [dot |-> IF service.auth_status = "success" THEN "bg-emerald-500"
             ELSE IF service.tcp_available THEN "bg-amber-500" ELSE "bg-destructive",
     badge |-> IF service.auth_status = "success" THEN "bg-emerald-500/10 text-emerald-600"
               ELSE IF service.tcp_available THEN "bg-amber-500/10 text-amber-600"
               ELSE "bg-destructive/10 text-destructive",
     label |-> IF service.auth_status = "success" THEN "Available"
               ELSE IF service.tcp_available THEN "Reachable" ELSE "Unavailable"]

\* {!discovering && services.length > 0 && services.map(...)}
RenderServiceList(list) ==
    /\ Len(list) > 0
    /\ serviceRows' = Some([services |-> list,
                            rows |-> [i \in 1..Len(list) |-> ServiceRow(list[i])]])
    /\ UNCHANGED << mounted, dashVars, netVars, adminVars, chatVars, apiVars, processingStatus,
                    ingestVars >>

\* the fields of a ServiceDetail the row looks at; auth_status null is written "null"
ServiceListNext ==
    \E list \in SeqUpTo([tcp_available : BOOLEAN,
                         auth_status : { "success", "unauthorized", "not_required", "unknown", "null" }],
                        MaxServices) :
        RenderServiceList(list)

(* ---------------------------------------------------------------------- *)
(* Dashboard, topic feed (src/unnamed/part_009:177-212)                    *)
(* ---------------------------------------------------------------------- *)
\* TopicMetrics.recent_message (string | object | null): null, a string, or
\* the object res.json() built for this response; ref tells objects apart
\* what the topic can report as its recent message
RecentMessageKinds == { "null", "string", "object" }
RecentMessageContents == { "", "evt-1", "evt-2" }

\* the value res.json() yields for a body, at the poll numbered ref
ParsedMessage(kind, content, ref) ==
    IF kind = "null" THEN [kind |-> "null", content |-> "", ref |-> 0]
    ELSE IF kind = "string" THEN [kind |-> "string", content |-> content, ref |-> 0]
    ELSE [kind |-> "object", content |-> content, ref |-> ref]

\* if (data.recent_message): null and '' are falsy, an object never is
Truthy(m) == m.kind = "object" \/ (m.kind = "string" /\ m.content # "")

\* a === b: strings by their characters, objects by identity
StrictEquals(a, b) ==
    /\ a.kind = b.kind
    /\ IF a.kind = "object" THEN a.ref = b.ref ELSE a.content = b.content

\* prev.some(m => m === data.recent_message)
Exists(prev, m) == \E i \in 1..Len(prev) : StrictEquals(prev[i], m)

\* prev => exists ? prev : [data.recent_message, ...prev].slice(0, 5)
MessageHistoryUpdater(prev, m) ==
    IF Exists(prev, m) THEN prev ELSE SliceFirst(<< m >> \o prev, 5)

\* queryFn of ['topicMetrics'] with res.ok; enabled: isReady && !!readiness?.bronze?.details?.topic
TopicMetricsPoll(kind, content) ==
    LET recent_message == ParsedMessage(kind, content, now') IN
    /\ mounted = "Dashboard"
    /\ detailedMetricsEnabled
    /\ Tick
    /\ topicMetrics' = Some([recent_message |-> recent_message])
    /\ messageHistory' = IF Truthy(recent_message)
                           THEN MessageHistoryUpdater(messageHistory, recent_message)
                           ELSE messageHistory
    /\ messageTimes' = IF Truthy(recent_message) /\ ~Exists(messageHistory, recent_message)
                         THEN SliceFirst(<< now' >> \o messageTimes, 5)
                         ELSE messageTimes
    /\ UNCHANGED << mounted, dashboardData, histVars, mutVars, modalVars, netVars, adminVars, chatVars,
                    apiVars, processingStatus, serviceRows, ingestionMode, batchCsvGenerated,
                    generateRequests, publishRequests, csvFresh, csvPublished >>

\* queryFn of ['topicMetrics']: !res.ok or a rejected fetch, the query keeps its data
TopicMetricsPollFailed ==
    /\ mounted = "Dashboard"
    /\ detailedMetricsEnabled
    /\ Tick
    /\ UNCHANGED << mounted, dashboardData, histVars, mutVars, modalVars, netVars, offDashVars >>

(* ---------------------------------------------------------------------- *)
(* Dashboard, batch ingestion (src/unnamed/part_009:245-247, 281-344)      *)
(* ---------------------------------------------------------------------- *)
\* the answers of the two endpoints: data.status
BatchStatuses == { "success", "error" }

\* <button onClick={handleGenerateBatchCSV} disabled={batchCsvGenerated}> in batch mode
GenerateButtonEnabled == ingestionMode = "batch" /\ ~batchCsvGenerated

\* <button onClick={handlePublishBatch} disabled={!batchCsvGenerated}> in batch mode
PublishButtonEnabled == ingestionMode = "batch" /\ batchCsvGenerated

\* IngestionModeSelector: setIngestionMode
SetIngestionMode(mode) ==
    /\ mounted = "Dashboard"
    /\ mode # ingestionMode
    /\ ingestionMode' = mode
    /\ UNCHANGED << mounted, dashVars, netVars, adminVars, chatVars, apiVars, processingStatus,
                    serviceRows, topicMetrics, messageHistory, messageTimes, batchCsvGenerated,
                    generateRequests, publishRequests, csvFresh, csvPublished >>

\* handleGenerateBatchCSV up to the await
ClickGenerate ==
    /\ mounted = "Dashboard"
    /\ GenerateButtonEnabled
    /\ actionLogs' = << "Generating batch CSV..." >>
    /\ Send(Request("generateBatchCsv", "POST", << "scenarios", "generate_batch_csv" >>, None))
    /\ generateRequests' = generateRequests + 1
    /\ UNCHANGED << mounted, dashboardData, histVars, now, isIngesting, bootstrapPending,
                    scenarioPending, ingestTimers, modalVars, adminVars, chatVars, apiVars,
                    processingStatus, serviceRows, topicMetrics, messageHistory, messageTimes,
                    ingestionMode, batchCsvGenerated, publishRequests, csvFresh, csvPublished >>

\* handleGenerateBatchCSV after the awaits: data.status decides
GenerateAnswered(status) ==
    /\ mounted = "Dashboard"
    /\ generateRequests > 0
    /\ generateRequests' = generateRequests - 1
    /\ batchCsvGenerated' = IF status = "success" THEN TRUE ELSE batchCsvGenerated
    /\ actionLogs' = IF status = "success"
                       THEN << "Generated 100 records in S3 bucket: bronze-bucket/batch_ingest.csv" >>
                       ELSE << "Failed to generate CSV" >>
    /\ csvFresh' = IF status = "success" THEN TRUE ELSE csvFresh
    /\ csvPublished' = IF status = "success" THEN 0 ELSE csvPublished
    /\ UNCHANGED << mounted, dashboardData, histVars, now, isIngesting, bootstrapPending,
                    scenarioPending, ingestTimers, modalVars, netVars, adminVars, chatVars, apiVars,
                    processingStatus, serviceRows, topicMetrics, messageHistory, messageTimes,
                    ingestionMode, publishRequests >>

\* handleGenerateBatchCSV: the fetch or res.json() rejected, catch
GenerateFailed ==
    /\ mounted = "Dashboard"
    /\ generateRequests > 0
    /\ generateRequests' = generateRequests - 1
    /\ actionLogs' = << "Error generating batch CSV" >>
    /\ UNCHANGED << mounted, dashboardData, histVars, now, isIngesting, bootstrapPending,
                    scenarioPending, ingestTimers, modalVars, netVars, adminVars, chatVars, apiVars,
                    processingStatus, serviceRows, topicMetrics, messageHistory, messageTimes,
                    ingestionMode, batchCsvGenerated, publishRequests, csvFresh, csvPublished >>

\* handlePublishBatch up to the await
ClickPublish ==
    /\ mounted = "Dashboard"
    /\ PublishButtonEnabled
    /\ actionLogs' = << "Publishing batch to Kafka..." >>
    /\ Send(Request("publishBatch", "POST", << "scenarios", "publish_batch" >>, None))
    /\ publishRequests' = publishRequests + 1
    /\ UNCHANGED << mounted, dashboardData, histVars, now, isIngesting, bootstrapPending,
                    scenarioPending, ingestTimers, modalVars, adminVars, chatVars, apiVars,
                    processingStatus, serviceRows, topicMetrics, messageHistory, messageTimes,
                    ingestionMode, batchCsvGenerated, generateRequests, csvFresh, csvPublished >>

\* handlePublishBatch after the awaits: data.status decides
PublishAnswered(status) ==
    /\ mounted = "Dashboard"
    /\ publishRequests > 0
    /\ publishRequests' = publishRequests - 1
    /\ batchCsvGenerated' = IF status = "success" THEN FALSE ELSE batchCsvGenerated
    /\ actionLogs' = IF status = "success"
                       THEN << "Published 100 records to topic" >>
                       ELSE << "Failed to publish batch" >>
    /\ csvFresh' = IF status = "success" THEN FALSE ELSE csvFresh
    /\ csvPublished' = IF status = "success" THEN csvPublished + 1 ELSE csvPublished
    /\ UNCHANGED << mounted, dashboardData, histVars, now, isIngesting, bootstrapPending,
                    scenarioPending, ingestTimers, modalVars, netVars, adminVars, chatVars, apiVars,
                    processingStatus, serviceRows, topicMetrics, messageHistory, messageTimes,
                    ingestionMode, generateRequests >>

\* handlePublishBatch: the fetch or res.json() rejected, catch
PublishFailed ==
    /\ mounted = "Dashboard"
    /\ publishRequests > 0
    /\ publishRequests' = publishRequests - 1
    /\ actionLogs' = << "Error publishing batch" >>
    /\ UNCHANGED << mounted, dashboardData, histVars, now, isIngesting, bootstrapPending,
                    scenarioPending, ingestTimers, modalVars, netVars, adminVars, chatVars, apiVars,
                    processingStatus, serviceRows, topicMetrics, messageHistory, messageTimes,
                    ingestionMode, batchCsvGenerated, generateRequests, csvFresh, csvPublished >>

IngestInit ==
    /\ topicMetrics = None
    /\ messageHistory = << >>
    /\ messageTimes = << >>
    /\ ingestionMode = "realtime"
    /\ batchCsvGenerated = FALSE
    /\ generateRequests = 0
    /\ publishRequests = 0
    /\ csvFresh = FALSE
    /\ csvPublished = 0

\* the dashboard answers while the topic feed and the batch buttons are followed
IngestDashboardDatas ==
    { [configured |-> TRUE, readiness |-> Some(AllReady({"bucket"}))],
      [configured |-> TRUE, readiness |-> Some(AllReady({"topic", "bucket"}))] }

TopicFeedNext ==
    \/ \E d \in IngestDashboardDatas : DashboardPoll(d) /\ UNCHANGED now
    \/ \E kind \in RecentMessageKinds, content \in RecentMessageContents :
         TopicMetricsPoll(kind, content)
    \/ TopicMetricsPollFailed

BatchNext ==
    \/ \E mode \in { "batch", "realtime" } : SetIngestionMode(mode)
    \/ ClickGenerate
    \/ \E status \in BatchStatuses : GenerateAnswered(status)
    \/ GenerateFailed
    \/ ClickPublish
    \/ \E status \in BatchStatuses : PublishAnswered(status)
    \/ PublishFailed

PanelInit ==
    /\ processingStatus = None
    /\ serviceRows = None
    /\ IngestInit

\* the values the lagSeconds prop is rendered with: finite ones, and NaN
ProcessingStatusNext ==
    \E lagSeconds \in { Num(t) : t \in (-10)..(10 * MaxLag) } \cup { [nan |-> TRUE, tenths |-> 0] } :
        RenderProcessingStatus(lagSeconds)

(* ---------------------------------------------------------------------- *)
(* Header (src/README.md:152-229)                                          *)
(* ---------------------------------------------------------------------- *)
\* const isReady = bronze ready && silver ready && gold ready
headerIsReady(d) ==
    /\ readinessOf(d).bronze.status = "ready"
    /\ readinessOf(d).silver.status = "ready"
    /\ readinessOf(d).gold.status = "ready"

\* a plausible slip: the readiness is looked at before the configuration
HeaderBadgeReadyFirst(d) ==
    IF headerIsReady(d) THEN "System Ready"
    ELSE IF ~(IsSome(d) /\ Val(d).configured) THEN "System Offline"
    ELSE "Resources Missing"

\* {!isConfigured ? ... : !isReady ? ... : ...}
HeaderBadge(d) ==
    IF ~(IsSome(d) /\ Val(d).configured) THEN "System Offline"
    ELSE IF ~headerIsReady(d) THEN "Resources Missing"
    ELSE "System Ready"

HistInit ==
    /\ dashboardData = None
    /\ detailedMetrics = None
    /\ silverRecordsResponse = None
    /\ goldRecordsResponse = None
    /\ bronzeHistory = << >>
    /\ silverHistory = << >>
    /\ goldHistory = << >>
    /\ now = 0

\* the Dashboard page (route /), the AdminPage (route /admin) and the ChatPanel
\* component; each has its own React state and is followed on its own

\* a Dashboard that has been polling for a while: each history is one entry
\* short of its bound, built by polls whose answers alternated; the query data
\* is the answer of the latest of them, which the clock counts as its first
HistFullInit ==
    /\ dashboardData = Some([configured |-> TRUE, readiness |-> Some(AllReady({"topic", "bucket"}))])
    /\ bronzeHistory = [i \in 1..(BronzeHistoryMax - 1) |->
                          newEntry([total_messages |-> i % 2, processed |-> 0, invalidated_count |-> 0,
                                    lag_seconds |-> 0, queue_depth_percent |-> 0],
                                   i - BronzeHistoryMax + 2)]
    /\ detailedMetrics = Some([total_messages |-> (BronzeHistoryMax - 1) % 2, processed |-> 0,
                               invalidated_count |-> 0, lag_seconds |-> 0, queue_depth_percent |-> 0])
    /\ silverHistory = [i \in 1..(SilverHistoryMax - 1) |->
                          [device_id |-> "CNC-001", timestamp |-> IF i % 2 = 1 THEN "t1" ELSE "t2"]]
    /\ silverRecordsResponse = Some([data |-> << Last(silverHistory) >>])
    /\ goldHistory = [i \in 1..(GoldHistoryMax - 1) |->
                        [total_events |-> IF i % 2 = 1 THEN 100 ELSE 200, anomaly_count |-> 0]]
    /\ goldRecordsResponse = Some([data |-> << Last(goldHistory) >>])
    /\ now = 1
    /\ mounted = "Dashboard"
    /\ DashInit /\ AdminInit /\ ChatInit /\ ApiInit /\ PanelInit /\ NetInit

Init ==
    /\ mounted \in { "Dashboard", "AdminPage", "ChatPanel" }
    /\ HistInit
    /\ DashInit
    /\ AdminInit
    /\ ChatInit
    /\ ApiInit
    /\ PanelInit
    /\ NetInit

HistNext ==
    \/ \E d \in HistDashboardDatas : Tick /\ DashboardPoll(d)
    \/ \E m \in DetailedMetricsValues : DetailedMetricsPoll(m)
    \/ \E r \in SilverResponses : SilverPoll(r)
    \/ \E r \in GoldResponses : GoldPoll(r)
    \/ PollFailed

SpecHistory == Init /\ [][HistNext]_vars

\* the polls of a Dashboard whose histories are about to reach their bounds
SpecHistoryFull == HistFullInit /\ [][HistNext]_vars

DashNext ==
    \/ \E d \in UiDashboardDatas : DashboardPoll(d) /\ UNCHANGED now
    \/ ClickBootstrap
    \/ \E data \in [logs : { None, Some(<< >>), Some(<< "Created bronze-bucket" >>) }] :
           BootstrapSucceeded(data)
    \/ BootstrapFailed
    \/ ClickIngest
    \/ \E data \in ScenarioResults : ScenarioSucceeded(data)
    \/ ScenarioFailed
    \/ IngestTimerFires
    \/ \E res \in LayerResources : ClickResource(res)
    \/ \E q \in resourceRequests : ResourceDetailsResolved(q)
    \/ \E q \in resourceRequests : ResourceDetailsRejected(q)
    \/ CloseModal
    \/ \E key \in Keys : PressKey(key)
    \/ BackToList

Next == DashNext \/ AdminNext \/ ChatNext

Spec == Init /\ [][Next]_vars

\* the Dashboard with its scheduling: a request in flight is answered or
\* fails, and a timer that was set fires
SpecDashLive ==
    Init /\ [][DashNext]_vars
         /\ WF_vars((\E data \in ScenarioResults : ScenarioSucceeded(data)) \/ ScenarioFailed)
         /\ WF_vars(IngestTimerFires)

SpecApi == Init /\ [][ApiNext]_vars

\* the dashboard data alone, over every value of it
ViewNext == \E d \in DashboardDatas : DashboardPoll(d) /\ UNCHANGED now

SpecView == Init /\ [][ViewNext]_vars

\* the topic feed of the dashboard with batch ingestion
SpecTopicFeed == Init /\ [][TopicFeedNext]_vars

\* the batch buttons of the dashboard with batch ingestion
SpecBatch == Init /\ [][BatchNext]_vars

\* the list of discovered services over the services it can be given
SpecServiceList == Init /\ [][ServiceListNext]_vars

\* the ProcessingStatus component over the values of its prop
SpecProcessingStatus == Init /\ [][ProcessingStatusNext]_vars

(* ====================================================================== *)
(* Properties of the history effects                                       *)
(* ====================================================================== *)
Range(s) == { s[i] : i \in 1..Len(s) }

\* C1: after any sequence of polls of the silver records endpoint,
\* silverHistory holds no telemetry record more than once.
C1_SilverHistoryNoDuplicate == ~HasDuplicates(silverHistory)

\* C2: after any sequence of polls of the gold records endpoint,
\* goldHistory holds no KPI record more than once.
C2_GoldHistoryNoDuplicate == ~HasDuplicates(goldHistory)

SameAsNewest(m) ==
    /\ Len(bronzeHistory) > 0
    /\ Last(bronzeHistory).ingestion = m.total_messages
    /\ Last(bronzeHistory).processed = m.processed
    /\ Last(bronzeHistory).lag = m.lag_seconds

AppendedOne(m) ==
    /\ Len(bronzeHistory') > 0
    /\ Last(bronzeHistory').ingestion = m.total_messages
    /\ Last(bronzeHistory').processed = m.processed
    /\ Last(bronzeHistory').lag = m.lag_seconds
    /\ Last(bronzeHistory').queueDepth = m.queue_depth_percent
    /\ SubSeq(bronzeHistory', 1, Len(bronzeHistory') - 1)
         = SliceLast(bronzeHistory, BronzeHistoryMax - 1)

NoAdjacentBronzeEqual ==
    \A i \in 1..(Len(bronzeHistory) - 1) :
        ~ /\ bronzeHistory[i].ingestion = bronzeHistory[i + 1].ingestion
          /\ bronzeHistory[i].processed = bronzeHistory[i + 1].processed
          /\ bronzeHistory[i].lag = bronzeHistory[i + 1].lag

\* C3: a detailed-metrics poll whose total_messages, processed and lag_seconds
\* equal those of the newest bronzeHistory entry leaves bronzeHistory
\* unchanged, any other poll appends exactly one entry at the end, and no two
\* adjacent bronzeHistory entries agree on all three fields.
C3_BronzeHistoryStep ==
    /\ [][\A m \in DetailedMetricsValues :
            DetailedMetricsPoll(m) =>
                IF SameAsNewest(m) THEN bronzeHistory' = bronzeHistory ELSE AppendedOne(m)]_vars
    /\ []NoAdjacentBronzeEqual

\* C3 witness: two entries are in the history and a later poll that differed
\* from the newest entry in queue depth only has been absorbed.
C3_Witness ==
    /\ Len(bronzeHistory) >= 2
    /\ IsSome(detailedMetrics)
    /\ Val(detailedMetrics).queue_depth_percent # Last(bronzeHistory).queueDepth

\* C4 as claimed: after a poll no dashboard state contains a record that is
\* absent from the latest response of its endpoint.
C4_NothingOutlivesItsPoll ==
    /\ Range(silverHistory) \subseteq Range(lastProcessedRecords)
    /\ Range(goldHistory) \subseteq Range(lastGoldRecords)
    /\ \A i \in 1..Len(bronzeHistory) :
          /\ IsSome(detailedMetrics)
          /\ bronzeHistory[i].ingestion = Val(detailedMetrics).total_messages
          /\ bronzeHistory[i].processed = Val(detailedMetrics).processed
          /\ bronzeHistory[i].lag = Val(detailedMetrics).lag_seconds

\* C4 amended: the query data is request-scoped: a successful poll replaces
\* the data of its endpoint by exactly the new response and a failed poll keeps
\* it; the histories are what keeps records of earlier polls.
C4_QueryDataIsLatestResponse ==
    [][/\ \A d \in DashboardDatas : DashboardPoll(d) => dashboardData' = Some(d)
       /\ \A m \in DetailedMetricsValues : DetailedMetricsPoll(m) => detailedMetrics' = Some(m)
       /\ \A r \in SilverResponses : SilverPoll(r) => lastProcessedRecords' = r.data
       /\ \A r \in GoldResponses : GoldPoll(r) => lastGoldRecords' = r.data
       /\ PollFailed => /\ lastProcessedRecords' = lastProcessedRecords
                        /\ lastGoldRecords' = lastGoldRecords
                        /\ detailedMetrics' = detailedMetrics]_vars

\* C4 witness: a later silver poll has replaced the query data while the
\* history still holds a record of the earlier response.
C4_Witness ==
    /\ IsSome(silverRecordsResponse)
    /\ \E i \in 1..Len(silverHistory) : silverHistory[i] \notin Range(lastProcessedRecords)

(* ====================================================================== *)
(* Properties of the views and of the event handlers                       *)
(* ====================================================================== *)
\* a request of the given api function is issued in this step
Issued(api) == sentCount' = sentCount + 1 /\ Val(lastSent').api = api

\* the profile is sent to be saved in this step
SaveIssued == Issued("profile") /\ Val(lastSent').method = "PUT"

\* the data says that the connection is configured / that a layer is ready
DataConfigured(d) == IsSome(d) /\ Val(d).configured
DataLayerReady(d, layer) ==
    /\ IsSome(d)
    /\ IsSome(Val(d).readiness)
    /\ Val(Val(d).readiness)[layer].status = "ready"
DataAllReady(d) == \A layer \in { "bronze", "silver", "gold" } : DataLayerReady(d, layer)

\* C5: while the connection is configured and some layer is not 'ready' only
\* the bootstrap action is offered; an ingestion scenario request is issued
\* only where configured is true and all three layers are 'ready', a bootstrap
\* request only where configured is true and some layer is not 'ready'.
C5_BootstrapOrIngestion ==
    /\ []((DataConfigured(dashboardData) /\ ~DataAllReady(dashboardData))
            => (~IngestButtonEnabled /\ \A res \in LayerResources : ~ResourceClickable(res)))
    /\ [][/\ Issued("runScenario")
             => (DataConfigured(dashboardData) /\ DataAllReady(dashboardData))
          /\ Issued("bootstrap")
             => (DataConfigured(dashboardData) /\ ~DataAllReady(dashboardData))]_vars

\* C5 witness: resources were bootstrapped and, once the layers were reported
\* ready, the ingestion request went out.
C5_Witness ==
    /\ sentCount = 2
    /\ scenarioPending
    /\ Val(lastSent).api = "runScenario"
    /\ actionLogs = << "Bootstrap completed" >>

\* C6: the header shows 'System Offline' when not configured, 'Resources
\* Missing' when configured and some layer is not 'ready', 'System Ready' when
\* configured and all three layers are 'ready', and 'System Ready' exactly when
\* the page renders the pipeline view with the ingestion button.
C6_HeaderBadgeMatchesView ==
    LET badge == HeaderBadge(dashboardData) IN
    /\ badge \in { "System Offline", "Resources Missing", "System Ready" }
    /\ (badge = "System Offline") <=> ~DataConfigured(dashboardData)
    /\ (badge = "Resources Missing")
         <=> (DataConfigured(dashboardData) /\ ~DataAllReady(dashboardData))
    /\ (badge = "System Ready")
         <=> (DataConfigured(dashboardData) /\ DataAllReady(dashboardData))
    /\ (badge = "System Ready") <=> (DashboardView(dashboardData) = "pipeline")

\* C6 witness: the layers are all ready but the connection is not configured.
C6_Witness ==
    /\ IsSome(dashboardData)
    /\ ~Val(dashboardData).configured
    /\ DataAllReady(dashboardData)

\* C7: a profile save request is issued only when the most recent connection
\* test returned 'success' for exactly the host, username and password that
\* are saved.
C7_SaveOnlyWhatWasTested ==
    [][SaveIssued
         => /\ IsSome(lastTested)
            /\ Val(lastTested).status = "success"
            /\ Some(Val(lastTested).body) = Val(lastSent').body]_vars

\* C8: a 2xx response resolves with the parsed JSON body; a non-2xx response
\* rejects with an Error whose message is the body's message field when the
\* body is JSON with a non-empty message, the status text when the body is not
\* JSON and the status text is non-empty, and 'API request failed with status
\* <code>' otherwise.
C8_HandleResponseContract ==
    IsSome(apiOutcome) =>
        LET res == Val(apiResponse)
            out == Val(apiOutcome)
            fallback == "API request failed with status " \o ToString(res.status)
        IN  IF res.status \in 200..299
            THEN res.body.kind # "invalid" => (out.state = "fulfilled" /\ out.value = Some(res.body))
            ELSE /\ out.state = "rejected"
                 /\ Val(out.error).name = "Error"
                 /\ Val(out.error).message =
                      IF res.body.kind = "object" /\ res.body.message \notin { None, Some("") }
                        THEN Val(res.body.message)
                      ELSE IF res.body.kind = "invalid" /\ res.statusText # ""
                        THEN res.statusText
                      ELSE fallback

\* an error message is part of the UI state
ErrorShown ==
    \/ \E i \in 1..Len(actionLogs) : actionLogs[i] \in { "Bootstrap failed", "Scenario execution error" }
    \/ IsSome(testResult) /\ Val(testResult).status = "error"
    \/ IsSome(saveResult) /\ Val(saveResult).status = "error"

\* C9: every failed request triggered from the UI (bootstrap, scenario run,
\* resource-detail fetch, connection test, profile save, service discovery)
\* leaves an error message in the UI state once it has settled.
C9_EveryFailureIsShown ==
    [][( \/ BootstrapFailed
         \/ ScenarioFailed
         \/ \E q \in resourceRequests : ResourceDetailsRejected(q)
         \/ \E err \in TestErrors : TestFailed(err)
         \/ SavePutFailed
         \/ DiscoverFailed
         \/ \E list \in ServiceLists : ServicesAnswered(FALSE, list)
         \/ \E score \in { [score |-> 100] } : ReadinessAnswered(FALSE, score) )
        => ErrorShown']_vars

\* a step in which the user triggers a request
UserTrigger ==
    \/ ClickBootstrap
    \/ ClickIngest
    \/ \E res \in LayerResources : ClickResource(res)
    \/ ClickTest
    \/ ClickSave
    \/ ClickDiscover
    \/ PressEnter
    \/ ClickSend

\* a step in which a handler goes on after a successful answer: the profile is
\* read again after it was saved, the readiness after the services
Continuation ==
    \/ SavePutOk
    \/ \E answered \in BOOLEAN, list \in ServiceLists : ServicesAnswered(answered, list)

\* C10: there is no automatic retry: a failed bootstrap, scenario,
\* connection-test, profile-save or chat request issues no request and leaves
\* none in flight; a bootstrap, scenario, connection-test, profile-save or chat
\* request is issued only by a step of the user, and any other request by such
\* a step or by a handler going on after an answer.
C10_NoAutomaticRetry ==
    [][/\ BootstrapFailed => (sentCount' = sentCount /\ ~bootstrapPending')
       /\ ScenarioFailed => (sentCount' = sentCount /\ ~scenarioPending')
       /\ (\E err \in TestErrors : TestFailed(err)) => (sentCount' = sentCount /\ testRequest' = None)
       /\ SavePutFailed => (sentCount' = sentCount /\ saveRequest' = None)
       /\ (\E q \in chatRequests, err \in ChatErrors : ChatFailed(q, err))
            => (sentCount' = sentCount /\ chatRequests' = {})
       /\ (\E api \in { "bootstrap", "runScenario", "testConnection", "proxyLLMChat" } : Issued(api))
            => UserTrigger
       /\ SaveIssued => UserTrigger
       /\ sentCount' # sentCount => (UserTrigger \/ Continuation)]_vars

\* C10 witness: a bootstrap has failed, nothing is in flight and one request
\* has been issued in all.
C10_Witness ==
    /\ "Bootstrap failed" \in Range(actionLogs)
    /\ ~bootstrapPending
    /\ sentCount = 1

(* ====================================================================== *)
(* Properties of the chat panel                                            *)
(* ====================================================================== *)
\* handleSend goes past its guard in this step
AcceptedSend == (PressEnter \/ ClickSend) /\ Trim(input) # << >> /\ ~isLoading

\* the message list of a payload: the system prompt with the context of the
\* moment, the chat so far in its order, the text just typed
IsChatMessageList(list, context, earlier, text) ==
    /\ Len(list) = Len(earlier) + 2
    /\ list[1].role = "system"
    /\ list[1].content[Len(list[1].content)] = ToString(context)
    /\ \A i \in 1..Len(earlier) :
         list[i + 1] = [role |-> earlier[i].role, content |-> earlier[i].content]
    /\ list[Len(list)] = [role |-> "user", content |-> text]

\* C11: each accepted chat send issues exactly one POST to /llm/chat whose
\* body carries the configured base_url and api_token and a payload of the
\* configured model and the messages [system prompt with the current pipeline
\* context, every earlier chat message in order, the new user input last].
C11_ChatRequestShape ==
    [][/\ AcceptedSend =>
            /\ sentCount' = sentCount + 1
            /\ Val(lastSent').method = "POST"
            /\ Val(lastSent').path = << "llm", "chat" >>
            /\ LET body == Val(Val(lastSent').body) IN
               /\ body.base_url = config.baseUrl
               /\ body.api_token = config.apiToken
               /\ body.payload.model = config.model
               /\ IsChatMessageList(body.payload.messages,
                                    [dashboard |-> [readiness |-> IF IsSome(dashboardData)
                                                                    THEN Val(dashboardData).readiness
                                                                    ELSE None],
                                     bronze_layer |-> IF IsSome(detailedMetrics)
                                                        THEN Some([total_messages |-> Val(detailedMetrics).total_messages,
                                                                   lag_seconds |-> Val(detailedMetrics).lag_seconds])
                                                        ELSE None,
                                     silver_layer |-> [last_5_records |-> SliceFirst(lastProcessedRecords, 5)],
                                     gold_layer |-> [last_5_records |-> SliceFirst(lastGoldRecords, 5)]],
                                    messages, input)
       /\ Issued("proxyLLMChat") => AcceptedSend]_vars

\* C11 witness: the second question of a chat went out, after the props
\* brought pipeline data: system prompt, question, answer, question.
C11_Witness ==
    /\ mounted = "ChatPanel"
    /\ IsSome(dashboardData)
    /\ sentCount = 2
    /\ Len(messages) = 3
    /\ isLoading
    /\ Len(Val(Val(lastSent).body).payload.messages) = 4

\* C12: no message, data or device information goes to an external AI model
\* provider: in every reachable state, the default configuration included, the
\* destination of a chat request is not an external provider's endpoint.
C12_NoExternalProvider ==
    (IsSome(lastSent) /\ Val(lastSent).api = "proxyLLMChat")
        => ProxyDestination(Val(lastSent)) \notin { "https://api.openai.com/v1" }

C14_ResourceDetailsUrl ==
    [][\A res \in LayerResources :
         ClickResource(res) =>
            /\ sentCount' = sentCount + 1
            /\ Val(lastSent').api = "getResourceDetails"
            /\ Val(lastSent').method = "GET"
            /\ res.type = "Buckets" => Val(lastSent').path = << "buckets", res.name, "objects" >>
            /\ res.type = "Topics" => Val(lastSent').path = << "topics", res.name, "metrics" >>
            /\ res.type = "Tables" => Val(lastSent').path = << "tables", res.name, "data" >>
            /\ res.type \in { "Buckets", "Topics", "Tables" }]_vars

\* C14 witness: three resource-detail fetches were made and answered, the last
\* one for a table.
C14_Witness ==
    /\ sentCount = 3
    /\ resourceRequests = {}
    /\ Val(lastSent).path = << "tables", "telemetry.cleansed", "data" >>
    /\ selectedResourceType = Some("Tables")

\* the bronze topic is reported present
DataTopicPresent(d) ==
    /\ IsSome(d)
    /\ IsSome(Val(d).readiness)
    /\ "topic" \in Val(Val(d).readiness).bronze.details

\* C15: dashboard data is polled whether or not the system is ready; the
\* detailed-metrics, silver-records and gold-records endpoints are requested
\* only while configured is true and all three layers are 'ready' (detailed
\* metrics only while the bronze topic is reported present as well), so none
\* is requested once a dashboard poll has reported otherwise.
C15_PollingGates ==
    /\ []((mounted = "Dashboard" /\ now < MaxPolls)
            => \A d \in HistDashboardDatas : ENABLED (Tick /\ DashboardPoll(d)))
    /\ [][/\ (\E m \in DetailedMetricsValues : DetailedMetricsPoll(m))
               => /\ DataConfigured(dashboardData)
                  /\ DataAllReady(dashboardData)
                  /\ DataTopicPresent(dashboardData)
          /\ ((\E r \in SilverResponses : SilverPoll(r)) \/ (\E r \in GoldResponses : GoldPoll(r)))
               => (DataConfigured(dashboardData) /\ DataAllReady(dashboardData))]_vars

\* C15 witness: metrics and silver records were fetched while the system was
\* ready, and the latest dashboard poll reports it unconfigured.
C15_Witness ==
    /\ IsSome(detailedMetrics)
    /\ IsSome(silverRecordsResponse)
    /\ IsSome(dashboardData)
    /\ ~Val(dashboardData).configured

\* C16: while the resource modal is open, pressing Escape closes it; while it
\* is closed a key press changes no state; the keydown listener is registered
\* only while the modal is open, at most one in any reachable state.
C16_EscapeClosesModal ==
    /\ [](escapeListeners \in 0..1 /\ (escapeListeners = 1 <=> modalOpen))
    /\ [][/\ (modalOpen /\ PressKey("Escape")) => ~modalOpen'
          /\ \A key \in Keys : (~modalOpen /\ PressKey(key)) => UNCHANGED vars]_vars

\* C16 witness: the modal was opened a second time and Escape closed it; the
\* data of the resource is still kept.
C16_Witness ==
    /\ sentCount = 2
    /\ ~modalOpen
    /\ escapeListeners = 0
    /\ IsSome(resourceData)
    /\ IsSome(selectedResourceName)

(* ====================================================================== *)
(* Properties of the status badges                                         *)
(* ====================================================================== *)
\* C17: the lag status badge maps every lag value to exactly one label:
\* 'Real-time' when lag < 5, 'Minor delay' when 5 <= lag < 30, 'Significant
\* lag' when lag >= 30.
C17_LagStatusLabel ==
    IsSome(processingStatus) =>
        LET lag == Val(processingStatus).lagSeconds
            label == Val(processingStatus).status.label
        IN  /\ label \in { "Real-time", "Minor delay", "Significant lag" }
            /\ (~lag.nan /\ lag.tenths < 50) => label = "Real-time"
            /\ (~lag.nan /\ 50 <= lag.tenths /\ lag.tenths < 300) => label = "Minor delay"
            /\ (~lag.nan /\ lag.tenths >= 300) => label = "Significant lag"

\* C17 witness: the badge is rendered with a lag of exactly 30 seconds.
C17_Witness ==
    /\ IsSome(processingStatus)
    /\ Val(processingStatus).lagSeconds = Num(300)
    /\ Val(processingStatus).status.label = "Significant lag"

\* the colour a class name of a row stands for
RowColour(class) ==
    IF class \in { "bg-emerald-500", "bg-emerald-500/10 text-emerald-600" } THEN "emerald"
    ELSE IF class \in { "bg-amber-500", "bg-amber-500/10 text-amber-600" } THEN "amber"
    ELSE IF class \in { "bg-destructive", "bg-destructive/10 text-destructive" } THEN "destructive"
    ELSE "none"

\* C18: each discovered service shows exactly one status badge: 'Available'
\* when auth_status is 'success' (whatever tcp_available is), otherwise
\* 'Reachable' when tcp_available is true, otherwise 'Unavailable'; the dot
\* colour and the label always follow the same case.
C18_ServiceBadge ==
    IsSome(serviceRows) =>
        LET list == Val(serviceRows).services
            rows == Val(serviceRows).rows
        IN  /\ Len(rows) = Len(list)
            /\ \A i \in 1..Len(list) :
                 /\ rows[i].label \in { "Available", "Reachable", "Unavailable" }
                 /\ rows[i].label = "Available" <=> list[i].auth_status = "success"
                 /\ rows[i].label = "Reachable"
                      <=> (list[i].auth_status # "success" /\ list[i].tcp_available)
                 /\ rows[i].label = "Unavailable"
                      <=> (list[i].auth_status # "success" /\ ~list[i].tcp_available)
                 /\ RowColour(rows[i].dot) = RowColour(rows[i].badge)
                 /\ RowColour(rows[i].dot) =
                      (CASE rows[i].label = "Available" -> "emerald"
                         [] rows[i].label = "Reachable" -> "amber"
                         [] OTHER -> "destructive")

\* C18 witness: a service that authenticates although its port check failed is
\* listed before one that is only reachable.
C18_Witness ==
    /\ IsSome(serviceRows)
    /\ Val(serviceRows).services = << [tcp_available |-> FALSE, auth_status |-> "success"],
                                      [tcp_available |-> TRUE, auth_status |-> "unauthorized"] >>
    /\ Val(serviceRows).rows[1].label = "Available"

(* ====================================================================== *)
(* Properties of the topic feed and of batch ingestion                     *)
(* ====================================================================== *)
\* two values are the same message: the same text, or objects of the same content
SameMessage(a, b) == a.kind = b.kind /\ a.content = b.content

\* the message is in the list
Present(list, m) == \E i \in 1..Len(list) : SameMessage(list[i], m)

\* C19: a recent topic message is added to messageHistory only if unique: in
\* every reachable state messageHistory contains no message twice, has at most
\* 5 entries and is ordered newest first, and a poll whose recent_message is
\* empty or already present leaves it unchanged.
C19_MessageHistoryUnique ==
    /\ [](/\ \A i, j \in 1..Len(messageHistory) :
               i # j => ~SameMessage(messageHistory[i], messageHistory[j])
          /\ Len(messageHistory) <= 5
          /\ \A i, j \in 1..Len(messageTimes) : i < j => messageTimes[i] > messageTimes[j])
    /\ [][\A kind \in RecentMessageKinds, content \in RecentMessageContents :
            (/\ TopicMetricsPoll(kind, content)
             /\ \/ kind = "null"
                \/ kind = "string" /\ content = ""
                \/ Present(messageHistory, ParsedMessage(kind, content, now')))
            => messageHistory' = messageHistory]_vars

\* a step in which a generate or a publish request fails
BatchRequestFails ==
    \/ GenerateAnswered("error")
    \/ GenerateFailed
    \/ PublishAnswered("error")
    \/ PublishFailed

\* C20: batch ingestion is a two-step cycle: a publish_batch request is issued
\* only after a generate_batch_csv request has succeeded since the last
\* successful publish, each generated CSV is published at most once, after a
\* successful publish the action available is Generate again, and a failed
\* generate or publish leaves batchCsvGenerated unchanged.
C20_BatchCycle ==
    /\ [](csvPublished <= 1)
    /\ [][/\ Issued("publishBatch") => csvFresh
          /\ (PublishAnswered("success") /\ ingestionMode = "batch")
               => (GenerateButtonEnabled' /\ ~PublishButtonEnabled')
          /\ BatchRequestFails => batchCsvGenerated' = batchCsvGenerated]_vars

(* ====================================================================== *)
(* Properties of the bounded histories, the ingestion run, the resource    *)
(* modal and the chat                                                      *)
(* ====================================================================== *)
\* the history after the arrival of added: the oldest entries are dropped,
\* as many as exceed max, the others keep their order, the arrived are last
Arrived(old, new, added, max) ==
    LET dropped == IF Len(old) + Len(added) > max THEN Len(old) + Len(added) - max ELSE 0
    IN  new = SubSeq(old, dropped + 1, Len(old)) \o added

C22_OneRunAtATime ==
    /\ [](scenarioPending => (isIngesting /\ ingestTimers = 0))
    /\ [][/\ Issued("runScenario") => (~scenarioPending /\ scenarioPending' /\ isIngesting')
          /\ IngestTimerFires => (~scenarioPending /\ ~scenarioPending')
          /\ (scenarioPending /\ scenarioPending') => isIngesting']_vars

\* C22 witness: a second run is in flight; the reset of the first run has
\* fired before it was started.
C22_Witness ==
    /\ sentCount = 2
    /\ Val(lastSent).api = "runScenario"
    /\ scenarioPending
    /\ isIngesting
    /\ ingestTimers = 0
    /\ actionLogs = << "Scenario execution error" >>

\* C23: after every 'iot_streaming' run, whether its request succeeds or
\* fails, isIngesting eventually returns to false and the ingestion button is
\* enabled again (in the pipeline view, where it is rendered); in particular
\* the reset is scheduled by the failed run as well.
C23_IngestButtonComesBack ==
    /\ scenarioPending ~> (~isIngesting /\ ~scenarioPending)
    /\ [](( ~isIngesting /\ ~scenarioPending /\ mounted = "Dashboard"
             /\ DashboardView(dashboardData) = "pipeline") => IngestButtonEnabled)
    /\ [][((\E data \in ScenarioResults : ScenarioSucceeded(data)) \/ ScenarioFailed)
            => (isIngesting' /\ ingestTimers' > 0)]_vars

\* C23 witness: a run has failed, the reset has fired and the button is
\* enabled again.
C23_Witness ==
    /\ sentCount = 1
    /\ Val(lastSent).api = "runScenario"
    /\ actionLogs = << "Scenario execution error" >>
    /\ ingestTimers = 0
    /\ IngestButtonEnabled

\* C24: whenever the resource modal is open and resourceData is not null,
\* resourceData is the response of the request made for the currently
\* selected resource type and name.
C24_DataOfCurrentSelection ==
    (modalOpen /\ IsSome(resourceData)) =>
        /\ IsSome(selectedResourceType)
        /\ IsSome(selectedResourceName)
        /\ Val(resourceData) = [type |-> Val(selectedResourceType), name |-> Val(selectedResourceName)]

\* the request made for the current selection is in flight
CurrentRequestPending ==
    \E q \in resourceRequests :
        /\ selectedResourceType = Some(q.type)
        /\ selectedResourceName = Some(q.name)
        /\ \A other \in resourceRequests : other.id <= q.id

\* C25: fetchingData is true for as long as the request for the currently
\* selected resource is in flight, so the modal never shows 'No details
\* available.' (open, not fetching, no data) while that request is pending.
C25_FetchingWhilePending ==
    (modalOpen /\ CurrentRequestPending) => fetchingData

\* C26: whenever the resource modal is closed, resourceData and
\* selectedResourceName are null.
C26_ClosedModalHoldsNothing ==
    ~modalOpen => (resourceData = None /\ selectedResourceName = None)

\* C27: whenever no chat request is in flight, the chat messages are complete
\* exchanges: they alternate user, assistant, starting with a user message
\* and ending with an assistant message.
C27_CompleteExchanges ==
    chatRequests = {} =>
        /\ Len(messages) % 2 = 0
        /\ \A i \in 1..Len(messages) :
             messages[i].role = IF i % 2 = 1 THEN "user" ELSE "assistant"

\* a step of the send handlers that issues a request
SendsChatRequest == (PressEnter \/ ClickSend) /\ sentCount' = sentCount + 1

\* C28: at most one chat request is in flight at any time, and isLoading is
\* true exactly while one is; while isLoading is true, or the input is empty
\* or only whitespace, no send issues a request, and a send that is refused
\* leaves messages, input and isLoading unchanged; when a request is answered
\* or fails isLoading returns to false.
C28_OneChatRequest ==
    /\ [](/\ Cardinality(chatRequests) <= 1
          /\ isLoading <=> chatRequests # {}
          /\ (isLoading \/ Trim(input) = << >>) => ~ENABLED SendsChatRequest)
    /\ [][/\ ((PressEnter \/ ClickSend) /\ (isLoading \/ Trim(input) = << >>))
               => UNCHANGED << messages, input, isLoading, chatRequests, netVars >>
          /\ Issued("proxyLLMChat") => (~isLoading /\ isLoading')
          /\ (\E q \in chatRequests :
                 \/ \E reply \in { << "The pipeline is healthy." >> } : ChatAnswered(q, reply)
                 \/ \E err \in ChatErrors : ChatFailed(q, err))
               => (~isLoading' /\ chatRequests' = {})]_vars

\* C28 witness: Enter on an input of one blank was refused after a request
\* had failed: one request so far, none in flight, the blank still there.
C28_Witness ==
    /\ mounted = "ChatPanel"
    /\ sentCount = 1
    /\ chatRequests = {}
    /\ ~isLoading
    /\ Len(messages) = 2
    /\ messages[2].content # << "The pipeline is healthy." >>
    /\ input = << " " >>

====
